---- MODULE Spec2Model ----
(***************************************************************************)
(* Search core and index builder of salesforce-docs-mcp.                   *)
(*                                                                         *)
(* Strings are sequences of one-character strings, so that sanitizing,     *)
(* tokenizing, LIKE matching and substring counting are computed, not      *)
(* assumed.  Scores are kept exact: a score s of the source is the integer *)
(* s * 10 * (number of search terms).                                      *)
(***************************************************************************)
EXTENDS Integers, Sequences, FiniteSets, TLC

\* ------------------------------------------------------------------------
\* Strings
\* ------------------------------------------------------------------------

Undefined == "undefined"

Min(a, b) == IF a <= b THEN a ELSE b
Max(a, b) == IF a >= b THEN a ELSE b

Range(s) == {s[i] : i \in 1..Len(s)}

\* String.prototype.toLowerCase, one character
ToLowerChar(c) ==
  CASE c = "A" -> "a" [] c = "B" -> "b" [] c = "C" -> "c" [] c = "D" -> "d"
    [] c = "E" -> "e" [] c = "F" -> "f" [] c = "G" -> "g" [] c = "H" -> "h"
    [] c = "I" -> "i" [] c = "J" -> "j" [] c = "K" -> "k" [] c = "L" -> "l"
    [] c = "M" -> "m" [] c = "N" -> "n" [] c = "O" -> "o" [] c = "P" -> "p"
    [] c = "Q" -> "q" [] c = "R" -> "r" [] c = "S" -> "s" [] c = "T" -> "t"
    [] c = "U" -> "u" [] c = "V" -> "v" [] c = "W" -> "w" [] c = "X" -> "x"
    [] c = "Y" -> "y" [] c = "Z" -> "z" [] OTHER -> c

\* String.prototype.toLowerCase
ToLowerCase(s) == [i \in 1..Len(s) |-> ToLowerChar(s[i])]

\* s.startsWith(t, i - 1): t occurs in s at (1-based) position i
OccursAt(s, t, i) ==
  /\ i + Len(t) - 1 <= Len(s)
  /\ \A j \in 1..Len(t) : s[i + j - 1] = t[j]

\* String.prototype.includes
Includes(s, t) == \E i \in 1..(Len(s) - Len(t) + 1) : OccursAt(s, t, i)

\* the characters the class [\x00-\x1f] covers (tab and line feed stand for all)
ControlChars == {"\t", "\n", "\r"}

\* the characters \s covers in a regular expression and trim() removes
WhiteSpace == {" ", "\t", "\n", "\r"}

\* String.prototype.replace(/[...]/g, ''): drop every character of a class
RemoveChars(s, class) == SelectSeq(s, LAMBDA c : c \notin class)

\* length of the run of characters of a class that starts at position i:
\* j is the first position after the run
RunLength(s, i, class) ==
  IF i > Len(s) THEN 0
  ELSE (CHOOSE j \in i..(Len(s) + 1) :
          /\ \A k \in i..(j - 1) : s[k] \in class
          /\ j > Len(s) \/ s[j] \notin class) - i

\* length of the run of characters outside a class that starts at position i
RunLengthNot(s, i, class) ==
  IF i > Len(s) THEN 0
  ELSE (CHOOSE j \in i..(Len(s) + 1) :
          /\ \A k \in i..(j - 1) : s[k] \notin class
          /\ j > Len(s) \/ s[j] \in class) - i

\* String.prototype.trim
RECURSIVE TrimStart(_)
TrimStart(s) ==
  IF s # << >> /\ Head(s) \in WhiteSpace THEN TrimStart(Tail(s)) ELSE s

RECURSIVE TrimEnd(_)
TrimEnd(s) ==
  IF s # << >> /\ s[Len(s)] \in WhiteSpace
  THEN TrimEnd(SubSeq(s, 1, Len(s) - 1)) ELSE s

Trim(s) == TrimEnd(TrimStart(s))

\* query.replace(/'/g, "''"), one half of the string after the other
RECURSIVE DoubleQuotes(_)
DoubleQuotes(s) ==
  IF Len(s) <= 1 THEN (IF s = <<"'">> THEN <<"'", "'">> ELSE s)
  ELSE DoubleQuotes(SubSeq(s, 1, Len(s) \div 2))
         \o DoubleQuotes(SubSeq(s, Len(s) \div 2 + 1, Len(s)))

\* String.prototype.split(/\s+/) from position i: the pieces between maximal
\* whitespace runs; the piece at i is n characters long, and an empty piece
\* is produced at either end when the string starts or ends with whitespace
RECURSIVE SplitFrom(_, _, _)
SplitFrom(s, i, n) ==
  IF i + n > Len(s) THEN <<SubSeq(s, i, Len(s))>>
  ELSE <<SubSeq(s, i, i + n - 1)>>
         \o SplitFrom(s, i + n + RunLength(s, i + n, WhiteSpace),
                      RunLengthNot(s, i + n + RunLength(s, i + n, WhiteSpace),
                                   WhiteSpace))

SplitWhitespace(s) == SplitFrom(s, 1, RunLengthNot(s, 1, WhiteSpace))

\* ------------------------------------------------------------------------
\* Query sanitizing and tokenizing (db/queries.ts)
\* ------------------------------------------------------------------------

MAX_QUERY_LENGTH == 500

sanitizeQuery(query) ==
  LET cut   == IF Len(query) > MAX_QUERY_LENGTH
               THEN SubSeq(query, 1, MAX_QUERY_LENGTH) ELSE query
      clean == Trim(RemoveChars(RemoveChars(cut, {"<", ">"}), ControlChars))
  IN  DoubleQuotes(clean)

\* sanitizedQuery.toLowerCase().split(/\s+/).filter(w => w.length > 1)
searchTermsOf(sanitizedQuery) ==
  SelectSeq(SplitWhitespace(ToLowerCase(sanitizedQuery)), LAMBDA w : Len(w) > 1)

\* buildSearchPatterns: the same words, each wrapped as %word%
buildSearchPatterns(sanitizedQuery) ==
  LET words == SelectSeq(SplitWhitespace(ToLowerCase(sanitizedQuery)),
                         LAMBDA w : Len(w) > 1)
  IN  [i \in 1..Len(words) |-> <<"%">> \o words[i] \o <<"%">>]

\* ------------------------------------------------------------------------
\* Intent classifier (utils/intent.ts)
\* ------------------------------------------------------------------------

INTENT_PATTERNS ==
  <<
    \* apex, trigger, class, soql in apex
    [keywords |-> <<<<"a","p","e","x">>, <<"t","r","i","g","g","e","r">>, <<"c","l","a","s","s">>, <<"s","o","q","l"," ","i","n"," ","a","p","e","x">>>>,
     category |-> "core_platform", subcategory |-> "apex", weight |-> 10],
    \* batch apex, queueable, schedulable, future method
    [keywords |-> <<<<"b","a","t","c","h"," ","a","p","e","x">>, <<"q","u","e","u","e","a","b","l","e">>, <<"s","c","h","e","d","u","l","a","b","l","e">>, <<"f","u","t","u","r","e"," ","m","e","t","h","o","d">>>>,
     category |-> "core_platform", subcategory |-> "apex", weight |-> 12],
    \* apex test, test class, testmethod, test.starttest
    [keywords |-> <<<<"a","p","e","x"," ","t","e","s","t">>, <<"t","e","s","t"," ","c","l","a","s","s">>, <<"t","e","s","t","m","e","t","h","o","d">>, <<"t","e","s","t",".","s","t","a","r","t","t","e","s","t">>>>,
     category |-> "core_platform", subcategory |-> "apex", weight |-> 10],
    \* apex governor, limits, governor limits
    [keywords |-> <<<<"a","p","e","x"," ","g","o","v","e","r","n","o","r">>, <<"l","i","m","i","t","s">>, <<"g","o","v","e","r","n","o","r"," ","l","i","m","i","t","s">>>>,
     category |-> "core_platform", subcategory |-> "apex", weight |-> 10],
    \* lwc, lightning web component, web component
    [keywords |-> <<<<"l","w","c">>, <<"l","i","g","h","t","n","i","n","g"," ","w","e","b"," ","c","o","m","p","o","n","e","n","t">>, <<"w","e","b"," ","c","o","m","p","o","n","e","n","t">>>>,
     category |-> "core_platform", subcategory |-> "lightning", weight |-> 10],
    \* @wire, @api, @track, lightning-
    [keywords |-> <<<<"@","w","i","r","e">>, <<"@","a","p","i">>, <<"@","t","r","a","c","k">>, <<"l","i","g","h","t","n","i","n","g","-">>>>,
     category |-> "core_platform", subcategory |-> "lightning", weight |-> 10],
    \* lwc lifecycle, connectedcallback, renderedcallback
    [keywords |-> <<<<"l","w","c"," ","l","i","f","e","c","y","c","l","e">>, <<"c","o","n","n","e","c","t","e","d","c","a","l","l","b","a","c","k">>, <<"r","e","n","d","e","r","e","d","c","a","l","l","b","a","c","k">>>>,
     category |-> "core_platform", subcategory |-> "lightning", weight |-> 12],
    \* aura, aura component, lightning component, component bundle
    [keywords |-> <<<<"a","u","r","a">>, <<"a","u","r","a"," ","c","o","m","p","o","n","e","n","t">>, <<"l","i","g","h","t","n","i","n","g"," ","c","o","m","p","o","n","e","n","t">>, <<"c","o","m","p","o","n","e","n","t"," ","b","u","n","d","l","e">>>>,
     category |-> "core_platform", subcategory |-> "lightning", weight |-> 8],
    \* visualforce, apex:page, apex:form, vf page
    [keywords |-> <<<<"v","i","s","u","a","l","f","o","r","c","e">>, <<"a","p","e","x",":","p","a","g","e">>, <<"a","p","e","x",":","f","o","r","m">>, <<"v","f"," ","p","a","g","e">>>>,
     category |-> "core_platform", subcategory |-> "visualforce", weight |-> 10],
    \* soql, select from, where clause, relationship query
    [keywords |-> <<<<"s","o","q","l">>, <<"s","e","l","e","c","t"," ","f","r","o","m">>, <<"w","h","e","r","e"," ","c","l","a","u","s","e">>, <<"r","e","l","a","t","i","o","n","s","h","i","p"," ","q","u","e","r","y">>>>,
     category |-> "core_platform", subcategory |-> "soql_sosl", weight |-> 10],
    \* sosl, find, search query
    [keywords |-> <<<<"s","o","s","l">>, <<"f","i","n","d">>, <<"s","e","a","r","c","h"," ","q","u","e","r","y">>>>,
     category |-> "core_platform", subcategory |-> "soql_sosl", weight |-> 10],
    \* formula, formula field, validation rule, workflow rule
    [keywords |-> <<<<"f","o","r","m","u","l","a">>, <<"f","o","r","m","u","l","a"," ","f","i","e","l","d">>, <<"v","a","l","i","d","a","t","i","o","n"," ","r","u","l","e">>, <<"w","o","r","k","f","l","o","w"," ","r","u","l","e">>>>,
     category |-> "core_platform", subcategory |-> "formulas", weight |-> 8],
    \* rest api, restful, /services/data/, sobject
    [keywords |-> <<<<"r","e","s","t"," ","a","p","i">>, <<"r","e","s","t","f","u","l">>, <<"/","s","e","r","v","i","c","e","s","/","d","a","t","a","/">>, <<"s","o","b","j","e","c","t">>>>,
     category |-> "apis", subcategory |-> "rest_api", weight |-> 10],
    \* composite api, composite request, batch request
    [keywords |-> <<<<"c","o","m","p","o","s","i","t","e"," ","a","p","i">>, <<"c","o","m","p","o","s","i","t","e"," ","r","e","q","u","e","s","t">>, <<"b","a","t","c","h"," ","r","e","q","u","e","s","t">>>>,
     category |-> "apis", subcategory |-> "rest_api", weight |-> 12],
    \* soap api, enterprise wsdl, partner wsdl
    [keywords |-> <<<<"s","o","a","p"," ","a","p","i">>, <<"e","n","t","e","r","p","r","i","s","e"," ","w","s","d","l">>, <<"p","a","r","t","n","e","r"," ","w","s","d","l">>>>,
     category |-> "apis", subcategory |-> "soap_api", weight |-> 10],
    \* metadata api, deploy, retrieve, package.xml
    [keywords |-> <<<<"m","e","t","a","d","a","t","a"," ","a","p","i">>, <<"d","e","p","l","o","y">>, <<"r","e","t","r","i","e","v","e">>, <<"p","a","c","k","a","g","e",".","x","m","l">>>>,
     category |-> "apis", subcategory |-> "metadata_api", weight |-> 10],
    \* bulk api, bulk 2.0, bulk data, data loader
    [keywords |-> <<<<"b","u","l","k"," ","a","p","i">>, <<"b","u","l","k"," ","2",".","0">>, <<"b","u","l","k"," ","d","a","t","a">>, <<"d","a","t","a"," ","l","o","a","d","e","r">>>>,
     category |-> "apis", subcategory |-> "bulk_api", weight |-> 10],
    \* streaming api, pushtopic, platform event, cdc, change data capture
    [keywords |-> <<<<"s","t","r","e","a","m","i","n","g"," ","a","p","i">>, <<"p","u","s","h","t","o","p","i","c">>, <<"p","l","a","t","f","o","r","m"," ","e","v","e","n","t">>, <<"c","d","c">>, <<"c","h","a","n","g","e"," ","d","a","t","a"," ","c","a","p","t","u","r","e">>>>,
     category |-> "apis", subcategory |-> "streaming_api", weight |-> 10],
    \* tooling api, execute anonymous, debug log, apextestrun
    [keywords |-> <<<<"t","o","o","l","i","n","g"," ","a","p","i">>, <<"e","x","e","c","u","t","e"," ","a","n","o","n","y","m","o","u","s">>, <<"d","e","b","u","g"," ","l","o","g">>, <<"a","p","e","x","t","e","s","t","r","u","n">>>>,
     category |-> "apis", subcategory |-> "tooling_api", weight |-> 10],
    \* chatter api, connect api, feed item
    [keywords |-> <<<<"c","h","a","t","t","e","r"," ","a","p","i">>, <<"c","o","n","n","e","c","t"," ","a","p","i">>, <<"f","e","e","d"," ","i","t","e","m">>>>,
     category |-> "apis", subcategory |-> "specialized_apis", weight |-> 8],
    \* analytics api, reports api, dashboard api, wave
    [keywords |-> <<<<"a","n","a","l","y","t","i","c","s"," ","a","p","i">>, <<"r","e","p","o","r","t","s"," ","a","p","i">>, <<"d","a","s","h","b","o","a","r","d"," ","a","p","i">>, <<"w","a","v","e">>>>,
     category |-> "apis", subcategory |-> "specialized_apis", weight |-> 8],
    \* sfdx, sf cli, salesforce cli, dx
    [keywords |-> <<<<"s","f","d","x">>, <<"s","f"," ","c","l","i">>, <<"s","a","l","e","s","f","o","r","c","e"," ","c","l","i">>, <<"d","x">>>>,
     category |-> "dev_tools", subcategory |-> "sfdx_cli", weight |-> 10],
    \* scratch org, dev hub, source push, source pull
    [keywords |-> <<<<"s","c","r","a","t","c","h"," ","o","r","g">>, <<"d","e","v"," ","h","u","b">>, <<"s","o","u","r","c","e"," ","p","u","s","h">>, <<"s","o","u","r","c","e"," ","p","u","l","l">>>>,
     category |-> "dev_tools", subcategory |-> "sfdx_cli", weight |-> 10],
    \* package, unlocked package, 2gp, managed package
    [keywords |-> <<<<"p","a","c","k","a","g","e">>, <<"u","n","l","o","c","k","e","d"," ","p","a","c","k","a","g","e">>, <<"2","g","p">>, <<"m","a","n","a","g","e","d"," ","p","a","c","k","a","g","e">>>>,
     category |-> "dev_tools", subcategory |-> "packaging", weight |-> 10],
    \* isvforce, appexchange, security review
    [keywords |-> <<<<"i","s","v","f","o","r","c","e">>, <<"a","p","p","e","x","c","h","a","n","g","e">>, <<"s","e","c","u","r","i","t","y"," ","r","e","v","i","e","w">>>>,
     category |-> "dev_tools", subcategory |-> "packaging", weight |-> 8],
    \* devops, ci/cd, deployment, git, version control
    [keywords |-> <<<<"d","e","v","o","p","s">>, <<"c","i","/","c","d">>, <<"d","e","p","l","o","y","m","e","n","t">>, <<"g","i","t">>, <<"v","e","r","s","i","o","n"," ","c","o","n","t","r","o","l">>>>,
     category |-> "dev_tools", subcategory |-> "devops", weight |-> 8],
    \* mobile sdk, salesforce mobile, mobile app
    [keywords |-> <<<<"m","o","b","i","l","e"," ","s","d","k">>, <<"s","a","l","e","s","f","o","r","c","e"," ","m","o","b","i","l","e">>, <<"m","o","b","i","l","e"," ","a","p","p">>>>,
     category |-> "dev_tools", subcategory |-> "mobile_sdk", weight |-> 8],
    \* security, permission, sharing, fls, field level security
    [keywords |-> <<<<"s","e","c","u","r","i","t","y">>, <<"p","e","r","m","i","s","s","i","o","n">>, <<"s","h","a","r","i","n","g">>, <<"f","l","s">>, <<"f","i","e","l","d"," ","l","e","v","e","l"," ","s","e","c","u","r","i","t","y">>>>,
     category |-> "security", subcategory |-> "security", weight |-> 10],
    \* oauth, connected app, jwt, authentication
    [keywords |-> <<<<"o","a","u","t","h">>, <<"c","o","n","n","e","c","t","e","d"," ","a","p","p">>, <<"j","w","t">>, <<"a","u","t","h","e","n","t","i","c","a","t","i","o","n">>>>,
     category |-> "security", subcategory |-> "security", weight |-> 10],
    \* encryption, shield, platform encryption
    [keywords |-> <<<<"e","n","c","r","y","p","t","i","o","n">>, <<"s","h","i","e","l","d">>, <<"p","l","a","t","f","o","r","m"," ","e","n","c","r","y","p","t","i","o","n">>>>,
     category |-> "security", subcategory |-> "security", weight |-> 10],
    \* integration, callout, external service, http
    [keywords |-> <<<<"i","n","t","e","g","r","a","t","i","o","n">>, <<"c","a","l","l","o","u","t">>, <<"e","x","t","e","r","n","a","l"," ","s","e","r","v","i","c","e">>, <<"h","t","t","p">>>>,
     category |-> "integration", subcategory |-> "integration", weight |-> 8],
    \* mulesoft, anypoint, heroku
    [keywords |-> <<<<"m","u","l","e","s","o","f","t">>, <<"a","n","y","p","o","i","n","t">>, <<"h","e","r","o","k","u">>>>,
     category |-> "integration", subcategory |-> "integration", weight |-> 8],
    \* external object, odata, salesforce connect
    [keywords |-> <<<<"e","x","t","e","r","n","a","l"," ","o","b","j","e","c","t">>, <<"o","d","a","t","a">>, <<"s","a","l","e","s","f","o","r","c","e"," ","c","o","n","n","e","c","t">>>>,
     category |-> "integration", subcategory |-> "integration", weight |-> 8],
    \* sales cloud, opportunity, lead, account, contact
    [keywords |-> <<<<"s","a","l","e","s"," ","c","l","o","u","d">>, <<"o","p","p","o","r","t","u","n","i","t","y">>, <<"l","e","a","d">>, <<"a","c","c","o","u","n","t">>, <<"c","o","n","t","a","c","t">>>>,
     category |-> "clouds", subcategory |-> "sales_cloud", weight |-> 6],
    \* service cloud, case, knowledge, omni-channel
    [keywords |-> <<<<"s","e","r","v","i","c","e"," ","c","l","o","u","d">>, <<"c","a","s","e">>, <<"k","n","o","w","l","e","d","g","e">>, <<"o","m","n","i","-","c","h","a","n","n","e","l">>>>,
     category |-> "clouds", subcategory |-> "service_cloud", weight |-> 6],
    \* experience cloud, community, site, portal
    [keywords |-> <<<<"e","x","p","e","r","i","e","n","c","e"," ","c","l","o","u","d">>, <<"c","o","m","m","u","n","i","t","y">>, <<"s","i","t","e">>, <<"p","o","r","t","a","l">>>>,
     category |-> "clouds", subcategory |-> "experience_cloud", weight |-> 8],
    \* marketing cloud, journey builder, email studio
    [keywords |-> <<<<"m","a","r","k","e","t","i","n","g"," ","c","l","o","u","d">>, <<"j","o","u","r","n","e","y"," ","b","u","i","l","d","e","r">>, <<"e","m","a","i","l"," ","s","t","u","d","i","o">>>>,
     category |-> "clouds", subcategory |-> "marketing_cloud", weight |-> 8],
    \* crm analytics, tableau crm, einstein analytics
    [keywords |-> <<<<"c","r","m"," ","a","n","a","l","y","t","i","c","s">>, <<"t","a","b","l","e","a","u"," ","c","r","m">>, <<"e","i","n","s","t","e","i","n"," ","a","n","a","l","y","t","i","c","s">>>>,
     category |-> "clouds", subcategory |-> "analytics_cloud", weight |-> 8],
    \* best practice, pattern, anti-pattern, design pattern
    [keywords |-> <<<<"b","e","s","t"," ","p","r","a","c","t","i","c","e">>, <<"p","a","t","t","e","r","n">>, <<"a","n","t","i","-","p","a","t","t","e","r","n">>, <<"d","e","s","i","g","n"," ","p","a","t","t","e","r","n">>>>,
     category |-> "best_practices", subcategory |-> "best_practices", weight |-> 6],
    \* performance, optimization, bulkification
    [keywords |-> <<<<"p","e","r","f","o","r","m","a","n","c","e">>, <<"o","p","t","i","m","i","z","a","t","i","o","n">>, <<"b","u","l","k","i","f","i","c","a","t","i","o","n">>>>,
     category |-> "best_practices", subcategory |-> "best_practices", weight |-> 6],
    \* release notes, new feature, summer, winter, spring
    [keywords |-> <<<<"r","e","l","e","a","s","e"," ","n","o","t","e","s">>, <<"n","e","w"," ","f","e","a","t","u","r","e">>, <<"s","u","m","m","e","r">>, <<"w","i","n","t","e","r">>, <<"s","p","r","i","n","g">>>>,
     category |-> "release_notes", subcategory |-> "release_notes", weight |-> 8]
  >>

\* pattern.keywords.filter(kw => queryLower.includes(kw.toLowerCase()))
matchedKeywordsOf(pattern, queryLower) ==
  SelectSeq(pattern.keywords, LAMBDA kw : Includes(queryLower, ToLowerCase(kw)))

\* index of the entry of scores with this key, 0 when there is none
ScoreIndex(scores, key) ==
  IF \E i \in 1..Len(scores) : scores[i].key = key
  THEN CHOOSE i \in 1..Len(scores) : scores[i].key = key
  ELSE 0

\* scores.set(key, (scores.get(key) || 0) + add); scores keeps the insertion
\* order of the Map
AddScore(scores, pattern, add) ==
  IF ScoreIndex(scores, <<pattern.category, pattern.subcategory>>) = 0
  THEN Append(scores, [key |-> <<pattern.category, pattern.subcategory>>,
                       weight |-> add,
                       category |-> pattern.category,
                       subcategory |-> pattern.subcategory])
  ELSE [scores EXCEPT
          ![ScoreIndex(scores, <<pattern.category, pattern.subcategory>>)].weight =
             @ + add]

\* fault: only the first pattern that matches is counted
ScanPatternKeepsFirst(pattern, matched, acc) ==
  IF Len(matched) > 0 /\ acc.totalWeight = 0
  THEN [scores |-> AddScore(acc.scores, pattern, pattern.weight * Len(matched)),
        matchedPatterns |-> acc.matchedPatterns \o matched,
        totalWeight |-> acc.totalWeight + pattern.weight * Len(matched)]
  ELSE acc

\* the body of the loop over INTENT_PATTERNS for one pattern
ScanPattern(pattern, matched, acc) ==
  IF Len(matched) > 0
  THEN [scores |-> AddScore(acc.scores, pattern, pattern.weight * Len(matched)),
        matchedPatterns |-> acc.matchedPatterns \o matched,
        totalWeight |-> acc.totalWeight + pattern.weight * Len(matched)]
  ELSE acc

\* the loop over INTENT_PATTERNS from pattern i on
RECURSIVE ScanPatterns(_, _, _)
ScanPatterns(queryLower, i, acc) ==
  IF i > Len(INTENT_PATTERNS) THEN acc
  ELSE ScanPatterns(queryLower, i + 1,
                    ScanPattern(INTENT_PATTERNS[i],
                                matchedKeywordsOf(INTENT_PATTERNS[i], queryLower),
                                acc))

\* fault: the comparison is >=, so of equal weights the last one wins
RECURSIVE BestMatchLastWins(_, _, _)
BestMatchLastWins(scores, i, best) ==
  IF i > Len(scores) THEN best
  ELSE IF best = 0 \/ scores[i].weight >= scores[best].weight
       THEN BestMatchLastWins(scores, i + 1, i)
       ELSE BestMatchLastWins(scores, i + 1, best)

\* the loop over scores.values(): the first entry with the greatest weight
RECURSIVE BestMatch(_, _, _)
BestMatch(scores, i, best) ==
  IF i > Len(scores) THEN best
  ELSE IF best = 0 \/ scores[i].weight > scores[best].weight
       THEN BestMatch(scores, i + 1, i)
       ELSE BestMatch(scores, i + 1, best)

\* [...new Set(xs)]: first occurrences, in order
RECURSIVE Dedup(_)
Dedup(xs) ==
  IF xs = << >> THEN << >>
  ELSE LET rest == Dedup(SubSeq(xs, 1, Len(xs) - 1))
       IN  IF xs[Len(xs)] \in Range(rest) THEN rest
           ELSE Append(rest, xs[Len(xs)])

HIGH_WEIGHT == 15
MEDIUM_WEIGHT == 7

\* fault: the confidence is taken from the weight of the winning pair
IntentOfWinnerWeight(acc, best) ==
  [category    |-> IF best = 0 THEN Undefined ELSE acc.scores[best].category,
   subcategory |-> IF best = 0 THEN Undefined ELSE acc.scores[best].subcategory,
   confidence  |-> IF best # 0 /\ acc.scores[best].weight >= HIGH_WEIGHT THEN "high"
                   ELSE IF best # 0 /\ acc.scores[best].weight >= MEDIUM_WEIGHT
                        THEN "medium"
                   ELSE "low",
   matchedPatterns |-> Dedup(acc.matchedPatterns),
   totalWeight |-> acc.totalWeight]

\* what detectIntent returns once the loop has filled scores
IntentOf(acc, best) ==
  [category    |-> IF best = 0 THEN Undefined ELSE acc.scores[best].category,
   subcategory |-> IF best = 0 THEN Undefined ELSE acc.scores[best].subcategory,
   confidence  |-> IF acc.totalWeight >= HIGH_WEIGHT THEN "high"
                   ELSE IF acc.totalWeight >= MEDIUM_WEIGHT THEN "medium"
                   ELSE "low",
   matchedPatterns |-> Dedup(acc.matchedPatterns),
   totalWeight |-> acc.totalWeight]

Classify(acc) == IntentOf(acc, BestMatch(acc.scores, 1, 0))

detectIntent(query) ==
  Classify(ScanPatterns(ToLowerCase(query), 1,
             [scores |-> << >>, matchedPatterns |-> << >>, totalWeight |-> 0]))

\* ------------------------------------------------------------------------
\* The persisted index (db/database.ts schema, scripts/build-index.ts rows)
\* ------------------------------------------------------------------------

\* rows of `documents`; (category, subcategory, priority) are triples that
\* categorizeDocument assigns
Documents ==
  <<[id |-> 1, category |-> "core_platform", subcategory |-> "apex",          priority |-> 9],
    [id |-> 2, category |-> "core_platform", subcategory |-> "visualforce",   priority |-> 7],
    [id |-> 3, category |-> "apis",          subcategory |-> "rest_api",      priority |-> 10],
    [id |-> 4, category |-> "core_platform", subcategory |-> "general",       priority |-> 5],
    [id |-> 5, category |-> "release_notes", subcategory |-> "release_notes", priority |-> 6]>>

\* rows of `chunks` in rowid order; content_lower is the column LIKE reads
Chunks ==
  <<[id |-> 1, document_id |-> 1, content_lower |-> <<"a","p","e","x"," ","a","p","e","x">>],
    [id |-> 2, document_id |-> 1, content_lower |-> <<"a","p","e","x"," ","c","l","a","s","s">>],
    [id |-> 3, document_id |-> 2, content_lower |-> <<"a","p","e","x"," ","l","w","c">>],
    [id |-> 4, document_id |-> 3, content_lower |-> <<"r","e","s","t"," ","c","l","a","s","s">>],
    [id |-> 5, document_id |-> 4, content_lower |-> <<"a","_","b"," ","z","z">>],
    [id |-> 6, document_id |-> 3, content_lower |-> <<"z","z"," ","r","e","s","t">>],
    [id |-> 7, document_id |-> 5, content_lower |-> <<"a","p","e","x"," ","z","z">>],
    [id |-> 8, document_id |-> 2, content_lower |-> <<"z","z","z">>],
    [id |-> 9, document_id |-> 4, content_lower |-> <<"a","p","e","x">>]>>

ChunkIds == 1..Len(Chunks)

\* the orders in which the storage engine may return rows of equal priority
\* (ORDER BY d.priority leaves them unordered): by rowid, or by rowid reversed
TieOrders ==
  {[i \in ChunkIds |-> i], [i \in ChunkIds |-> Len(Chunks) + 1 - i]}

\* ------------------------------------------------------------------------
\* Matching and scoring (db/queries.ts, executeSearch)
\* ------------------------------------------------------------------------

\* SQLite's LIKE: % matches any run of characters, _ any one character, any
\* other character itself without regard to case; p from position i against
\* s from position j
RECURSIVE LikeFrom(_, _, _, _)
LikeFrom(p, s, i, j) ==
  IF i > Len(p) THEN j > Len(s)
  ELSE IF p[i] = "%"
       THEN \E k \in j..(Len(s) + 1) : LikeFrom(p, s, i + 1, k)
       ELSE IF p[i] = "_"
            THEN j <= Len(s) /\ LikeFrom(p, s, i + 1, j + 1)
            ELSE /\ j <= Len(s)
                 /\ ToLowerChar(p[i]) = ToLowerChar(s[j])
                 /\ LikeFrom(p, s, i + 1, j + 1)

Like(s, p) == LikeFrom(p, s, 1, 1)

\* contentLower.match(new RegExp(escaped term, 'gi')).length: the matches of
\* a global regular expression do not overlap
RECURSIVE CountMatchesFrom(_, _, _)
CountMatchesFrom(s, t, i) ==
  IF i + Len(t) - 1 > Len(s) THEN 0
  ELSE IF OccursAt(ToLowerCase(s), ToLowerCase(t), i)
       THEN 1 + CountMatchesFrom(s, t, i + Len(t))
       ELSE CountMatchesFrom(s, t, i + 1)

\* fault: every position where t occurs is counted, overlapping ones too
CountOverlapping(s, t) ==
  Cardinality({i \in 1..Len(s) : OccursAt(ToLowerCase(s), ToLowerCase(t), i)})

CountMatches(s, t) == CountMatchesFrom(s, t, 1)

\* the indices 1..Len(keys) ordered by ascending key, equal keys by index:
\* what a stable sort does
RECURSIVE StableOrderOf(_, _)
StableOrderOf(keys, left) ==
  IF left = {} THEN << >>
  ELSE LET m == CHOOSE i \in left :
                  \A j \in left : keys[i] < keys[j] \/ (keys[i] = keys[j] /\ i <= j)
       IN  <<m>> \o StableOrderOf(keys, left \ {m})

StableOrder(keys) == StableOrderOf(keys, DOMAIN keys)

DocumentOf(chunk) == Documents[chunk.document_id]

\* the WHERE clause: any pattern matches, and the filters that are given hold
RowMatches(chunk, searchPatterns, category, subcategory) ==
  /\ \E i \in 1..Len(searchPatterns) : Like(chunk.content_lower, searchPatterns[i])
  /\ category # Undefined => DocumentOf(chunk).category = category
  /\ subcategory # Undefined => DocumentOf(chunk).subcategory = subcategory

\* position of chunk id c in the tie order
TiePos(tie, c) == CHOOSE i \in DOMAIN tie : tie[i] = c

\* WHERE: the ids of the matching chunks, in rowid order
MatchingRows(searchPatterns, category, subcategory) ==
  SelectSeq([i \in ChunkIds |-> i],
            LAMBDA c : RowMatches(Chunks[c], searchPatterns, category, subcategory))

\* the rows in the order given by a stable sort on keys
Reorder(rows, order) == [i \in 1..Len(rows) |-> rows[order[i]]]

\* ORDER BY d.priority DESC, rows of equal priority in the tie order
OrderByPriority(rows, tie) ==
  Reorder(rows,
          StableOrder([i \in 1..Len(rows) |->
                         (0 - DocumentOf(Chunks[rows[i]]).priority) * (Len(Chunks) + 1)
                         + TiePos(tie, rows[i])]))

\* LIMIT n
Limit(rows, n) == SubSeq(rows, 1, Min(n, Len(rows)))

\* fault: LIMIT is applied to the rows in rowid order, and only the rows
\* that are left are ordered by priority
SelectRowsLimitFirst(searchPatterns, category, subcategory, sampleSize, tie) ==
  OrderByPriority(Limit(MatchingRows(searchPatterns, category, subcategory),
                        sampleSize),
                  tie)

\* the SELECT: matching chunk ids, ORDER BY d.priority DESC LIMIT sampleSize
SelectRows(searchPatterns, category, subcategory, sampleSize, tie) ==
  Limit(OrderByPriority(MatchingRows(searchPatterns, category, subcategory), tie),
        sampleSize)

\* for (const term of searchTerms) { if (contentLower.includes(term)) ... }
RECURSIVE CountTerms(_, _, _)
CountTerms(contentLower, searchTerms, i) ==
  IF i > Len(searchTerms) THEN [matchCount |-> 0, totalOccurrences |-> 0]
  ELSE LET rest == CountTerms(contentLower, searchTerms, i + 1)
       IN  IF Includes(contentLower, searchTerms[i])
           THEN [matchCount |-> rest.matchCount + 1,
                 totalOccurrences |-> rest.totalOccurrences
                                      + CountMatches(contentLower, searchTerms[i])]
           ELSE rest

OCCURRENCE_BONUS_CAP == 2

\* one scored result.  matchDensity is matchCount / numTerms; bonus10 is
\* 10 * occurrenceBonus; score10n is 10 * numTerms * relevanceScore
Scored(c, doc, priority, counts, n, bonus10, detected) ==
  [chunk            |-> c,
   document         |-> [doc EXCEPT !.priority = priority],
   matchCount       |-> counts.matchCount,
   numTerms         |-> n,
   totalOccurrences |-> counts.totalOccurrences,
   bonus10          |-> bonus10,
   score10n         |-> 100 * counts.matchCount + 2 * priority * n + bonus10 * n,
   detectedIntent   |-> detected]

\* the body of the loop over the rows: priority || 1, the term loop,
\* Math.min(totalOccurrences * 0.1, 2)
ScoreCounts(c, counts, searchTerms, detected) ==
  Scored(c, DocumentOf(Chunks[c]),
         IF DocumentOf(Chunks[c]).priority = 0 THEN 1
         ELSE DocumentOf(Chunks[c]).priority,
         counts, Len(searchTerms),
         Min(counts.totalOccurrences, OCCURRENCE_BONUS_CAP * 10),
         detected)

ScoreRow(c, searchTerms, detected) ==
  ScoreCounts(c, CountTerms(Chunks[c].content_lower, searchTerms, 1),
              searchTerms, detected)

ScoreRows(rows, searchTerms, detected) ==
  [i \in 1..Len(rows) |-> ScoreRow(rows[i], searchTerms, detected)]

\* fault: the results are left in the order the rows were selected
SelectionOrder(results) == results

\* results.sort((a, b) => b.score - a.score)
SortByScore(results) ==
  Reorder(results, StableOrder([i \in 1..Len(results) |-> 0 - results[i].score10n]))

\* executeSearch: select, score, sort
executeSearch(searchPatterns, searchTerms, detected, category, subcategory, sampleSize, tie) ==
  SortByScore(ScoreRows(SelectRows(searchPatterns, category, subcategory,
                                   sampleSize, tie),
                        searchTerms, detected))

\* ------------------------------------------------------------------------
\* Filter resolution and fallback widening (db/queries.ts, searchDocuments)
\* ------------------------------------------------------------------------

DEFAULT_MAX_RESULTS == 5

\* scaled sample sizes: the source takes Math.max(maxResults * 10, 100) rows
\* when filtered, Math.max(maxResults * 50, 500) when not, and 500 for the
\* unfiltered fallback
FilteredSampleFactor == 2
FilteredSampleMin == 2
UnfilteredSampleFactor == 2
UnfilteredSampleMin == 3
FallbackSampleSize == 3

\* options: a field the caller leaves out is Undefined; maxResults left out
\* is 0, which `options.maxResults || 5` treats like undefined
MaxResultsOf(options) ==
  IF options.maxResults = 0 THEN DEFAULT_MAX_RESULTS ELSE options.maxResults

\* fault: a confident intent replaces the filter the caller gave
ResolveFiltersIntentFirst(options, intent) ==
  IF intent.confidence # "low" /\ intent.subcategory # Undefined
  THEN [category |-> intent.category, subcategory |-> intent.subcategory,
        usedIntentFilter |-> TRUE]
  ELSE [category |-> options.category, subcategory |-> options.subcategory,
        usedIntentFilter |-> FALSE]

\* fault: only a high confidence applies the intent filter
ResolveFiltersHighOnly(options, intent) ==
  IF /\ options.category = Undefined
     /\ options.subcategory = Undefined
     /\ intent.confidence = "high"
     /\ intent.subcategory # Undefined
  THEN [category |-> intent.category, subcategory |-> intent.subcategory,
        usedIntentFilter |-> TRUE]
  ELSE [category |-> options.category, subcategory |-> options.subcategory,
        usedIntentFilter |-> FALSE]

\* the effective filters: user-provided > intent-detected
ResolveFilters(options, intent) ==
  IF /\ options.category = Undefined
     /\ options.subcategory = Undefined
     /\ intent.confidence # "low"
     /\ intent.subcategory # Undefined
  THEN [category |-> intent.category, subcategory |-> intent.subcategory,
        usedIntentFilter |-> TRUE]
  ELSE [category |-> options.category, subcategory |-> options.subcategory,
        usedIntentFilter |-> FALSE]

SampleSizeOf(filters, maxResults) ==
  IF filters.category # Undefined \/ filters.subcategory # Undefined
  THEN Max(maxResults * FilteredSampleFactor, FilteredSampleMin)
  ELSE Max(maxResults * UnfilteredSampleFactor, UnfilteredSampleMin)

\* fault: the key leaves the options out
CacheKeyWithoutOptions(sanitizedQuery, options, filters) ==
  <<sanitizedQuery, filters.category, filters.subcategory>>

\* JSON.stringify({query, options, effectiveCategory, effectiveSubcategory})
CacheKey(sanitizedQuery, options, filters) ==
  <<sanitizedQuery, options, filters.category, filters.subcategory>>

\* fault: the fallbacks run whatever the number of results
TooFewAlways(results, maxResults) == TRUE

\* results.length < maxResults: the result list is too short to return as is
TooFew(results, maxResults) == Len(results) < maxResults

\* fault: the wider list is taken whatever its length
AdoptsAlways(wider, results) == TRUE

\* if (wider.length > results.length) results = wider
Adopts(wider, results) == Len(wider) > Len(results)

\* one executeSearch call of the try block: its scope, its sample size, the
\* list it returned and whether that list became `results`
Attempt(category, subcategory, sampleSize, found, adopted) ==
  [category |-> category, subcategory |-> subcategory, sampleSize |-> sampleSize,
   results |-> found, adopted |-> adopted]

\* let results = executeSearch(effectiveCategory, effectiveSubcategory, sampleSize)
FirstSearch(found, filters, sampleSize) ==
  [results  |-> found,
   attempts |-> <<Attempt(filters.category, filters.subcategory, sampleSize,
                          found, TRUE)>>]

\* a fallback search: if (wider.length > results.length) results = wider
Fallback(cur, wider, category, sampleSize) ==
  [results  |-> IF Adopts(wider, cur.results) THEN wider ELSE cur.results,
   attempts |-> Append(cur.attempts,
                       Attempt(category, Undefined, sampleSize, wider,
                               Adopts(wider, cur.results)))]

\* detectedIntent of a result
DetectedOf(intent, filters) ==
  IF filters.usedIntentFilter
  THEN [category |-> intent.category, subcategory |-> intent.subcategory,
        confidence |-> intent.confidence]
  ELSE [category |-> Undefined, subcategory |-> Undefined, confidence |-> Undefined]

\* results.slice(0, maxResults), with the attempts made
Sliced(cur, maxResults) ==
  [topResults |-> SubSeq(cur.results, 1, Min(maxResults, Len(cur.results))),
   attempts   |-> cur.attempts]

\* the try block: the first search, then the two fallbacks.  attempts lists
\* the executeSearch calls in the order made
TryBlock(patterns, terms, intent, filters, maxResults, tie) ==
  LET Search(category, subcategory, size) ==
        executeSearch(patterns, terms, DetectedOf(intent, filters),
                      category, subcategory, size, tie)
      \* if (results.length < maxResults): the unfiltered search
      Unfiltered(cur) ==
        IF TooFew(cur.results, maxResults)
        THEN Fallback(cur, Search(Undefined, Undefined, FallbackSampleSize),
                      Undefined, FallbackSampleSize)
        ELSE cur
      \* if (usedIntentFilter && results.length < maxResults): category only
      CategoryOnly(cur) ==
        IF filters.usedIntentFilter /\ TooFew(cur.results, maxResults)
        THEN Unfiltered(Fallback(cur,
                                 Search(filters.category, Undefined,
                                        SampleSizeOf(filters, maxResults)),
                                 filters.category,
                                 SampleSizeOf(filters, maxResults)))
        ELSE cur
  IN  Sliced(CategoryOnly(FirstSearch(Search(filters.category, filters.subcategory,
                                             SampleSizeOf(filters, maxResults)),
                                      filters, SampleSizeOf(filters, maxResults))),
             maxResults)

\* the part of a searchDocuments call fixed by its arguments
CallInfo(sanitizedQuery, options, intent) ==
  [intent   |-> intent,
   terms    |-> searchTermsOf(sanitizedQuery),
   filters  |-> ResolveFilters(options, intent),
   key      |-> CacheKey(sanitizedQuery, options, ResolveFilters(options, intent)),
   patterns |-> buildSearchPatterns(sanitizedQuery)]

\* searchDocuments from the sample size to the end of the try block
RunSearch(call, maxResults, tie) ==
  TryBlock(call.patterns, call.terms, call.intent, call.filters, maxResults, tie)

\* ------------------------------------------------------------------------
\* Result cache (lru-cache: max entries, ttl; the least recently used entry
\* is first in the sequence)
\* ------------------------------------------------------------------------

\* scaled: the source keeps 500 entries for 5 minutes
CacheMax == 1
CacheTtl == 1

CacheIndex(c, key) ==
  IF \E i \in 1..Len(c) : c[i].key = key
  THEN CHOOSE i \in 1..Len(c) : c[i].key = key
  ELSE 0

RemoveAt(c, i) == SubSeq(c, 1, i - 1) \o SubSeq(c, i + 1, Len(c))

\* an entry is stale once its age exceeds the ttl
IsStale(entry, t) == t - entry.start > CacheTtl

\* searchCache.get(key): found tells whether a value is returned; a stale
\* entry is deleted, a live one becomes the most recently used
CacheGet(c, key, t) ==
  LET i == CacheIndex(c, key)
  IN  IF i = 0 THEN [found |-> FALSE, value |-> << >>, cache |-> c]
      ELSE IF IsStale(c[i], t)
           THEN [found |-> FALSE, value |-> << >>, cache |-> RemoveAt(c, i)]
           ELSE [found |-> TRUE, value |-> c[i].value,
                 cache |-> Append(RemoveAt(c, i), c[i])]

\* searchCache.set(key, value): replaces the entry of the key, or evicts the
\* least recently used entry when the cache is full
CacheSet(c, key, value, t) ==
  LET i     == CacheIndex(c, key)
      entry == [key |-> key, value |-> value, start |-> t]
  IN  IF i # 0 THEN Append(RemoveAt(c, i), entry)
      ELSE IF Len(c) >= CacheMax THEN Append(Tail(c), entry)
           ELSE Append(c, entry)

\* ------------------------------------------------------------------------
\* Inputs
\* ------------------------------------------------------------------------

QEmpty  == << >>                                                   \* ""
QBlank  == <<" ", " ", " ">>                                       \* "   "
QApex   == <<"A","p","e","x">>                                     \* "Apex"
QClass  == <<"c","l","a","s","s">>                                 \* "class"
QWild   == <<"a","_">>                                             \* "a_"
QZz     == <<"z","z">>                                             \* "zz"
QRepeat == <<"a","p","e","x"," ","a","p","e","x"," ","l","w","c">> \* "apex apex lwc"
QTabbed == <<"a","p","e","x"," ","a","p","e","x","\t","l","w","c">> \* "apex apex\tlwc"
QVfPage == <<"v","f"," ","p","a","g","e"," ","e","x">>              \* "vf page ex"

Opts(category, subcategory, maxResults) ==
  [category |-> category, subcategory |-> subcategory, maxResults |-> maxResults]

\* the searchDocuments calls made: <<query, options>>
Calls ==
  {<<QEmpty,  Opts(Undefined, Undefined, 0)>>,
   <<QBlank,  Opts(Undefined, Undefined, 1)>>,
   <<QApex,   Opts(Undefined, Undefined, 0)>>,
   <<QApex,   Opts(Undefined, Undefined, 3)>>,
   <<QApex,   Opts(Undefined, Undefined, 1)>>,
   <<QClass,  Opts(Undefined, Undefined, 0)>>,
   <<QWild,   Opts(Undefined, Undefined, 0)>>,
   <<QZz,     Opts(Undefined, Undefined, 1)>>,
   <<QRepeat, Opts(Undefined, Undefined, 0)>>,
   <<QTabbed, Opts(Undefined, Undefined, 0)>>,
   <<QVfPage, Opts(Undefined, Undefined, 2)>>,
   <<QApex,   Opts("core_platform", Undefined, 1)>>,
   <<QApex,   Opts("release_notes", Undefined, 0)>>,
   <<QApex,   Opts(Undefined, "apex", 0)>>}

MaxTime == 2
MaxCalls == 3

\* ------------------------------------------------------------------------
\* State
\* ------------------------------------------------------------------------

VARIABLES
  disk,       \* the file at DB_PATH: "absent", "index", "schema", "rebuilt", "torn"
  db,         \* the server's module variable db: "null", "index", "schema"
  started,    \* main() has connected the transport
  cache,      \* searchCache
  now,        \* the clock the cache reads
  tieOrder,   \* the order the engine returns rows of equal priority in
  calls,      \* number of searchDocuments calls made
  last,       \* the last searchDocuments call and what it returned
  hist,       \* per (query, options): time and result of its latest return
  build,      \* the index builder process (scripts/build-index.ts)
  intentQuery,  \* the argument of a detectIntent call
  intentResult, \* what that call returned, Pending before it returns
  chunkInput,   \* the arguments of a chunkText call: text and options
  chunkOutput,  \* what that call returned, Pending before it returns
  intentContext,  \* the context argument of an expandQueryToKeywords call
  expansion,      \* what that call returned for intentQuery and intentContext
  sanitizeInput,  \* a query given to searchDocuments, up to its tokenizing
  sanitizeOutput, \* its sanitized query and search terms, Pending before
  loader        \* the getDatabase calls under way: where each caller is, the
                \* instance each got, the reads of DB_PATH, the instances made

serverVars == <<db, started, cache, now, tieOrder, calls, last, hist>>
intentVars == <<intentQuery, intentResult, intentContext, expansion>>
chunkVars == <<chunkInput, chunkOutput>>
sanitizeVars == <<sanitizeInput, sanitizeOutput>>
utilVars == <<intentVars, chunkVars, sanitizeVars, loader>>
vars == <<disk, serverVars, build, utilVars>>

NoCall ==
  [query |-> << >>, options |-> Opts(Undefined, Undefined, 0),
   outcome |-> "none", results |-> << >>, attempts |-> << >>,
   usedIntentFilter |-> FALSE, category |-> Undefined, subcategory |-> Undefined,
   loadedStore |-> FALSE, queriedStore |-> FALSE,
   time |-> 0, prevTime |-> 0 - 1, prevResults |-> << >>,
   error |-> [thrown |-> FALSE, message |-> << >>],
   response |-> [isError |-> FALSE, text |-> << >>]]

\* the builder before buildIndex is called; d is the file at DB_PATH
IdleBuild(d) ==
  [pc |-> "idle", hadIndex |-> d = "index", files |-> << >>, next |-> 1,
   docs |-> {}, chunks |-> {}, counted |-> << >>,
   successCount |-> 0, failCount |-> 0]

Never == [time |-> 0 - 1, results |-> << >>]

ServerInit ==
  /\ db = "null"
  /\ started = FALSE
  /\ cache = << >>
  /\ now = 0
  /\ tieOrder \in TieOrders
  /\ calls = 0
  /\ last = NoCall
  /\ hist = [c \in Calls |-> Never]

\* the value of a result that has not been returned yet
Pending == [pending |-> TRUE]

\* the greatest number of callers of getDatabase at one time
MaxCallers == 4

\* no caller has called getDatabase: no instance is made, nothing is read
NoLoads ==
  [pc |-> [p \in 1..MaxCallers |-> "idle"], got |-> [p \in 1..MaxCallers |-> 0],
   reads |-> 0, instances |-> 0]

\* no call of the exported helpers is under way; expandQueryToKeywords has
\* an optional context
UtilIdle ==
  /\ intentQuery = << >>
  /\ intentResult = Pending
  /\ intentContext = [given |-> FALSE, text |-> << >>]
  /\ expansion = Pending
  /\ chunkInput = [text |-> << >>, maxChunkSize |-> 0, overlapSize |-> 0]
  /\ chunkOutput = Pending
  /\ sanitizeInput = << >>
  /\ sanitizeOutput = Pending
  /\ loader = NoLoads

Init ==
  /\ disk \in {"absent", "index"}
  /\ ServerInit
  /\ build = IdleBuild(disk)
  /\ UtilIdle

\* ------------------------------------------------------------------------
\* Server (index.ts main, db/database.ts, db/queries.ts)
\* ------------------------------------------------------------------------

\* getDatabase: the store is read from DB_PATH when db is not set, and a new
\* empty database is made when there is no file
LoadedFrom(d) == IF d = "absent" THEN "empty" ELSE d

getDatabase(current, d) == IF current = "null" THEN LoadedFrom(d) ELSE current

\* main: initializeDatabase, then server.connect.  initializeDatabase creates
\* the schema and saves when the documents table is missing
InitializeDatabase ==
  /\ ~started
  /\ LET loaded == getDatabase(db, disk)
     IN  IF loaded = "empty"
         THEN db' = "schema" /\ disk' = "schema"
         ELSE db' = loaded /\ disk' = disk
  /\ started' = TRUE
  /\ UNCHANGED <<cache, now, tieOrder, calls, last, hist, build, utilVars>>

\* fault: the check for an empty pattern list is missing
NoEmptyCheck(searchPatterns) == FALSE

\* if (searchPatterns.length === 0) return []
HasNoPatterns(searchPatterns) == Len(searchPatterns) = 0

\* the errors the engine raises in prepare, bind or step
StorageErrors ==
  {"no such table: chunks", "database disk image is malformed"}

\* searchDocuments returned: nothing is thrown
NoError == [thrown |-> FALSE, message |-> << >>]

\* catch (error) { ... throw new Error(`Search failed: ${errorMessage}`) }
Caught(errorMessage) ==
  [thrown |-> TRUE, message |-> <<"Search failed: ", errorMessage>>]

\* fault: the tool handler answers an error like an empty list
HandlerSwallows(error) == [isError |-> FALSE, text |-> << >>]

\* the tool handler: an error thrown by the call is caught and answered with
\* isError; the text of a list of results is left out
HandlerResponse(error) ==
  IF error.thrown
  THEN [isError |-> TRUE, text |-> <<"Error: ">> \o error.message]
  ELSE [isError |-> FALSE, text |-> << >>]

\* the part of each call fixed by its arguments
CallTable ==
  [c \in Calls |->
     CallInfo(sanitizeQuery(c[1]), c[2], detectIntent(sanitizeQuery(c[1])))]

\* what the try block computes, per call and tie order
SearchTable ==
  [c \in Calls, tie \in TieOrders |-> RunSearch(CallTable[c], MaxResultsOf(c[2]), tie)]

\* searchDocuments from the cache lookup on: call is the part fixed by the
\* arguments, got the cache lookup, run what the try block computes on an
\* index with rows, handle the store getDatabase returned
Answer(query, options, call, got, run, handle) ==
  LET ran      == ~got.found /\ ~HasNoPatterns(call.patterns)
      \* with no rows in the store every SELECT is empty
      top      == IF handle = "index" THEN run.topResults ELSE << >>
      returned == IF got.found THEN got.value
                  ELSE IF HasNoPatterns(call.patterns) THEN << >>
                  ELSE top
  IN  /\ db' = handle
      /\ cache' = IF ran THEN CacheSet(got.cache, call.key, top, now) ELSE got.cache
      /\ last' = [query |-> query, options |-> options,
                  outcome |-> IF got.found THEN "hit"
                              ELSE IF HasNoPatterns(call.patterns) THEN "empty"
                              ELSE "computed",
                  results |-> returned,
                  attempts |-> IF ran /\ handle = "index" THEN run.attempts ELSE << >>,
                  usedIntentFilter |-> call.filters.usedIntentFilter,
                  category |-> call.filters.category,
                  subcategory |-> call.filters.subcategory,
                  loadedStore |-> db = "null",
                  queriedStore |-> ran,
                  time |-> now,
                  prevTime |-> hist[<<query, options>>].time,
                  prevResults |-> hist[<<query, options>>].results,
                  error |-> NoError,
                  response |-> HandlerResponse(NoError)]
      /\ hist' = [hist EXCEPT ![<<query, options>>] =
                    [time |-> now, results |-> returned]]

\* searchDocuments when the engine raises an error in executeSearch: the
\* catch block is entered, searchCache.set is not reached, nothing is returned
Throw(query, options, call, got, handle, error) ==
  /\ ~got.found
  /\ ~HasNoPatterns(call.patterns)
  /\ db' = handle
  /\ cache' = got.cache
  /\ last' = [query |-> query, options |-> options,
              outcome |-> "failed",
              results |-> << >>,
              attempts |-> << >>,
              usedIntentFilter |-> call.filters.usedIntentFilter,
              category |-> call.filters.category,
              subcategory |-> call.filters.subcategory,
              loadedStore |-> db = "null",
              queriedStore |-> TRUE,
              time |-> now,
              prevTime |-> hist[<<query, options>>].time,
              prevResults |-> hist[<<query, options>>].results,
              error |-> error,
              response |-> HandlerResponse(error)]
  /\ hist' = hist

\* searchDocuments(query, options)
SearchDocuments(query, options) ==
  /\ started
  /\ calls < MaxCalls
  /\ Answer(query, options, CallTable[<<query, options>>],
            CacheGet(cache, CallTable[<<query, options>>].key, now),
            SearchTable[<<query, options>>, tieOrder],
            getDatabase(db, disk))
  /\ calls' = calls + 1
  /\ UNCHANGED <<disk, started, now, tieOrder, build, utilVars>>

\* searchDocuments(query, options) with a storage error while matching
SearchDocumentsFails(query, options, errorMessage) ==
  /\ started
  /\ calls < MaxCalls
  /\ Throw(query, options, CallTable[<<query, options>>],
           CacheGet(cache, CallTable[<<query, options>>].key, now),
           getDatabase(db, disk), Caught(errorMessage))
  /\ calls' = calls + 1
  /\ UNCHANGED <<disk, started, now, tieOrder, build, utilVars>>

\* time passes
Tick ==
  /\ started
  /\ now < MaxTime
  /\ now' = now + 1
  /\ UNCHANGED <<disk, db, started, cache, tieOrder, calls, last, hist, build, utilVars>>

Next ==
  \/ InitializeDatabase
  \/ \E c \in Calls : SearchDocuments(c[1], c[2])
  \/ \E c \in Calls, e \in StorageErrors : SearchDocumentsFails(c[1], c[2], e)
  \/ Tick

Spec == Init /\ [][Next]_vars


\* ------------------------------------------------------------------------
\* detectIntent called on its own (utils/intent.ts)
\* ------------------------------------------------------------------------

\* "batch apex queueable"
QBatch ==
  <<"b","a","t","c","h"," ","a","p","e","x"," ","q","u","e","u","e","a","b","l","e">>

\* the example queries of the README's intent table, with the subcategory
\* of the topic listed for each
ReadmeExamples ==
  <<[query |-> <<"H","o","w"," ","t","o"," ","c","r","e","a","t","e"," ","a","n"," ","A","p","e","x"," ","t","r","i","g","g","e","r">>,
     topic |-> "apex"],
    [query |-> <<"R","E","S","T"," ","A","P","I"," ","O","A","u","t","h"," ","a","u","t","h","e","n","t","i","c","a","t","i","o","n">>,
     topic |-> "rest_api"],
    [query |-> <<"L","W","C"," ","w","i","r","e"," ","d","e","c","o","r","a","t","o","r">>,
     topic |-> "lightning"],
    [query |-> <<"B","u","l","k"," ","A","P","I"," ","2",".","0"," ","j","o","b">>,
     topic |-> "bulk_api"],
    [query |-> <<"s","h","a","r","i","n","g"," ","r","u","l","e","s"," ","p","e","r","m","i","s","s","i","o","n"," ","s","e","t">>,
     topic |-> "security"],
    [query |-> <<"S","O","Q","L"," ","q","u","e","r","y"," ","l","i","m","i","t","s">>,
     topic |-> "soql_sosl"]>>

\* words the generated queries are made of
Vocabulary ==
  {<<"s","o","q","l">>,
   <<"l","i","m","i","t","s">>,
   <<"a","p","e","x">>,
   <<"l","e","a","d">>,
   <<"f","i","n","d">>,
   <<"c","a","s","e">>,
   <<"o","a","u","t","h">>}

\* the greatest number of words of a generated query
MaxWords == 2

\* the queries of one to n words of the vocabulary, joined by single spaces
RECURSIVE PhrasesOf(_)
PhrasesOf(n) ==
  IF n <= 1 THEN Vocabulary
  ELSE PhrasesOf(n - 1)
         \cup {p \o <<" ">> \o w : p \in PhrasesOf(n - 1), w \in Vocabulary}

IntentQueries ==
  PhrasesOf(MaxWords) \cup {QBatch}
    \cup {ReadmeExamples[i].query : i \in 1..Len(ReadmeExamples)}

\* ------------------------------------------------------------------------
\* Query expansion (utils/intent.ts, expandQueryToKeywords)
\* ------------------------------------------------------------------------

\* the synonym table: <<concept, synonyms>>
SYNONYMS ==
  <<
    \* lwc
    <<<<"l","w","c">>,
      <<<<"l","i","g","h","t","n","i","n","g"," ","w","e","b"," ","c","o","m","p","o","n","e","n","t">>, <<"w","e","b"," ","c","o","m","p","o","n","e","n","t">>, <<"l","i","g","h","t","n","i","n","g","-">>>>>>,
    \* apex
    <<<<"a","p","e","x">>,
      <<<<"s","a","l","e","s","f","o","r","c","e"," ","a","p","e","x">>, <<"a","p","e","x"," ","c","l","a","s","s">>, <<"a","p","e","x"," ","t","r","i","g","g","e","r">>>>>>,
    \* trigger
    <<<<"t","r","i","g","g","e","r">>,
      <<<<"a","p","e","x"," ","t","r","i","g","g","e","r">>, <<"b","e","f","o","r","e"," ","t","r","i","g","g","e","r">>, <<"a","f","t","e","r"," ","t","r","i","g","g","e","r">>>>>>,
    \* soql
    <<<<"s","o","q","l">>,
      <<<<"s","a","l","e","s","f","o","r","c","e"," ","q","u","e","r","y">>, <<"s","e","l","e","c","t"," ","f","r","o","m">>, <<"q","u","e","r","y">>>>>>,
    \* rest api
    <<<<"r","e","s","t"," ","a","p","i">>,
      <<<<"r","e","s","t","f","u","l"," ","a","p","i">>, <<"r","e","s","t"," ","e","n","d","p","o","i","n","t">>, <<"/","s","e","r","v","i","c","e","s","/","d","a","t","a","/">>>>>>,
    \* bulk api
    <<<<"b","u","l","k"," ","a","p","i">>,
      <<<<"b","u","l","k"," ","2",".","0">>, <<"b","u","l","k"," ","d","a","t","a"," ","l","o","a","d">>, <<"d","a","t","a"," ","l","o","a","d","e","r"," ","a","p","i">>>>>>,
    \* permission
    <<<<"p","e","r","m","i","s","s","i","o","n">>,
      <<<<"p","e","r","m","i","s","s","i","o","n"," ","s","e","t">>, <<"p","r","o","f","i","l","e">>, <<"s","h","a","r","i","n","g"," ","r","u","l","e","s">>>>>>,
    \* deploy
    <<<<"d","e","p","l","o","y">>,
      <<<<"d","e","p","l","o","y","m","e","n","t">>, <<"c","h","a","n","g","e"," ","s","e","t">>, <<"m","e","t","a","d","a","t","a"," ","d","e","p","l","o","y">>>>>>,
    \* test
    <<<<"t","e","s","t">>,
      <<<<"t","e","s","t"," ","c","l","a","s","s">>, <<"u","n","i","t"," ","t","e","s","t">>, <<"a","p","e","x"," ","t","e","s","t">>, <<"t","e","s","t","m","e","t","h","o","d">>>>>>,
    \* callout
    <<<<"c","a","l","l","o","u","t">>,
      <<<<"h","t","t","p"," ","c","a","l","l","o","u","t">>, <<"e","x","t","e","r","n","a","l"," ","c","a","l","l","o","u","t">>, <<"w","e","b"," ","s","e","r","v","i","c","e">>>>>>,
    \* authentication
    <<<<"a","u","t","h","e","n","t","i","c","a","t","i","o","n">>,
      <<<<"o","a","u","t","h">>, <<"l","o","g","i","n">>, <<"s","s","o">>, <<"c","o","n","n","e","c","t","e","d"," ","a","p","p">>>>>>,
    \* governor limits
    <<<<"g","o","v","e","r","n","o","r"," ","l","i","m","i","t","s">>,
      <<<<"l","i","m","i","t","s">>, <<"d","m","l"," ","l","i","m","i","t","s">>, <<"s","o","q","l"," ","l","i","m","i","t","s">>>>>>>>

\* getCategoryTerms(subcategory): categoryTerms[subcategory] || []
getCategoryTerms(subcategory) ==
  IF subcategory = "apex"
  THEN <<<<"t","r","i","g","g","e","r">>, <<"c","l","a","s","s">>, <<"t","e","s","t">>, <<"g","o","v","e","r","n","o","r"," ","l","i","m","i","t","s">>, <<"b","a","t","c","h">>, <<"f","u","t","u","r","e">>>>
  ELSE IF subcategory = "lightning"
  THEN <<<<"l","w","c">>, <<"@","w","i","r","e">>, <<"@","a","p","i">>, <<"c","o","m","p","o","n","e","n","t">>, <<"a","u","r","a">>, <<"l","i","g","h","t","n","i","n","g","-">>>>
  ELSE IF subcategory = "visualforce"
  THEN <<<<"a","p","e","x",":","p","a","g","e">>, <<"c","o","n","t","r","o","l","l","e","r">>, <<"e","x","t","e","n","s","i","o","n">>, <<"a","p","e","x",":","f","o","r","m">>>>
  ELSE IF subcategory = "soql_sosl"
  THEN <<<<"S","E","L","E","C","T">>, <<"F","R","O","M">>, <<"W","H","E","R","E">>, <<"r","e","l","a","t","i","o","n","s","h","i","p">>, <<"a","g","g","r","e","g","a","t","e">>>>
  ELSE IF subcategory = "rest_api"
  THEN <<<<"e","n","d","p","o","i","n","t">>, <<"s","o","b","j","e","c","t">>, <<"c","o","m","p","o","s","i","t","e">>, <<"J","S","O","N">>, <<"H","T","T","P">>>>
  ELSE IF subcategory = "bulk_api"
  THEN <<<<"j","o","b">>, <<"b","a","t","c","h">>, <<"C","S","V">>, <<"d","a","t","a"," ","l","o","a","d">>>>
  ELSE IF subcategory = "metadata_api"
  THEN <<<<"p","a","c","k","a","g","e",".","x","m","l">>, <<"d","e","p","l","o","y">>, <<"r","e","t","r","i","e","v","e">>, <<"m","a","n","i","f","e","s","t">>>>
  ELSE IF subcategory = "streaming_api"
  THEN <<<<"P","u","s","h","T","o","p","i","c">>, <<"C","D","C">>, <<"P","l","a","t","f","o","r","m"," ","E","v","e","n","t">>, <<"s","u","b","s","c","r","i","b","e">>>>
  ELSE IF subcategory = "tooling_api"
  THEN <<<<"A","p","e","x","T","e","s","t","R","u","n">>, <<"d","e","b","u","g">>, <<"e","x","e","c","u","t","e"," ","a","n","o","n","y","m","o","u","s">>>>
  ELSE IF subcategory = "sfdx_cli"
  THEN <<<<"s","f">>, <<"s","c","r","a","t","c","h"," ","o","r","g">>, <<"s","o","u","r","c","e"," ","p","u","s","h">>, <<"d","e","v"," ","h","u","b">>>>
  ELSE IF subcategory = "security"
  THEN <<<<"p","e","r","m","i","s","s","i","o","n"," ","s","e","t">>, <<"s","h","a","r","i","n","g">>, <<"F","L","S">>, <<"p","r","o","f","i","l","e">>, <<"o","a","u","t","h">>>>
  ELSE IF subcategory = "integration"
  THEN <<<<"c","a","l","l","o","u","t">>, <<"H","T","T","P">>, <<"e","x","t","e","r","n","a","l"," ","s","e","r","v","i","c","e">>, <<"n","a","m","e","d"," ","c","r","e","d","e","n","t","i","a","l">>>>
  ELSE << >>

\* SYNONYMS[concept.toLowerCase()] for each concept in turn, the lists joined
RECURSIVE SynonymsOf(_)
SynonymsOf(concepts) ==
  IF concepts = << >> THEN << >>
  ELSE (IF \E i \in 1..Len(SYNONYMS) : SYNONYMS[i][1] = ToLowerCase(Head(concepts))
        THEN SYNONYMS[CHOOSE i \in 1..Len(SYNONYMS) :
                        SYNONYMS[i][1] = ToLowerCase(Head(concepts))][2]
        ELSE << >>)
       \o SynonymsOf(Tail(concepts))

\* s.split(/\s+/).filter(t => t.length > 2)
LongWordsOf(s) == SelectSeq(SplitWhitespace(s), LAMBDA w : Len(w) > 2)

MAX_CONTEXT_TERMS == 5
MAX_EXPANDED_TERMS == 20

\* expandQueryToKeywords once the intent is detected: synonyms of the
\* matched keywords, the words of the query, the first words of the context,
\* the terms of the detected subcategory; reasoning, a sentence built from
\* the other fields, is left out
Expansion(query, context, intent) ==
  LET contextTerms == IF ~context.given \/ context.text = << >> THEN << >>
                      ELSE LongWordsOf(context.text)
      uniqueTerms  == Dedup(SynonymsOf(intent.matchedPatterns)
                              \o LongWordsOf(query)
                              \o SubSeq(contextTerms, 1,
                                        Min(MAX_CONTEXT_TERMS, Len(contextTerms)))
                              \o (IF intent.subcategory = Undefined THEN << >>
                                  ELSE getCategoryTerms(intent.subcategory)))
  IN  [expandedTerms |-> SubSeq(uniqueTerms, 1,
                                Min(MAX_EXPANDED_TERMS, Len(uniqueTerms))),
       detectedConcepts  |-> Dedup(intent.matchedPatterns),
       suggestedCategory |-> intent.category,
       confidence        |-> intent.confidence]

expandQueryToKeywords(query, context) == Expansion(query, context, detectIntent(query))

IntentInit ==
  /\ disk = "absent"
  /\ ServerInit
  /\ build = IdleBuild(disk)
  /\ intentQuery \in IntentQueries
  /\ intentResult = Pending
  /\ intentContext = [given |-> FALSE, text |-> << >>]
  /\ expansion = Pending
  /\ chunkInput = [text |-> << >>, maxChunkSize |-> 0, overlapSize |-> 0]
  /\ chunkOutput = Pending
  /\ sanitizeInput = << >>
  /\ sanitizeOutput = Pending
  /\ loader = NoLoads

\* detectIntent(query) returns
DetectIntent ==
  /\ intentResult = Pending
  /\ intentResult' = detectIntent(intentQuery)
  /\ UNCHANGED <<disk, serverVars, build, intentQuery, intentContext, expansion,
                 chunkVars, sanitizeVars, loader>>

IntentSpec == IntentInit /\ [][DetectIntent]_vars

\* expandQueryToKeywords called on its own
ExpandInit ==
  /\ disk = "absent"
  /\ ServerInit
  /\ build = IdleBuild(disk)
  /\ intentQuery \in IntentQueries
  /\ intentResult = Pending
  \* no context, the empty string, "Apex Trigger best practices for bulk DML"
  /\ intentContext \in
       {[given |-> FALSE, text |-> << >>],
        [given |-> TRUE, text |-> << >>],
        [given |-> TRUE,
         text |-> <<"A","p","e","x"," ","T","r","i","g","g","e","r"," ","b","e","s","t"," ","p","r","a","c","t","i","c","e","s"," ","f","o","r"," ","b","u","l","k"," ","D","M","L">>]}
  /\ expansion = Pending
  /\ chunkInput = [text |-> << >>, maxChunkSize |-> 0, overlapSize |-> 0]
  /\ chunkOutput = Pending
  /\ sanitizeInput = << >>
  /\ sanitizeOutput = Pending
  /\ loader = NoLoads

\* expandQueryToKeywords(query, context) returns
ExpandQueryToKeywords ==
  /\ expansion = Pending
  /\ expansion' = expandQueryToKeywords(intentQuery, intentContext)
  /\ UNCHANGED <<disk, serverVars, build, intentQuery, intentContext, intentResult,
                 chunkVars, sanitizeVars, loader>>

ExpandSpec == ExpandInit /\ [][ExpandQueryToKeywords]_vars

\* ------------------------------------------------------------------------
\* Text chunker (utils/chunker.ts)
\* ------------------------------------------------------------------------

\* the characters `.` does not match and `^`, `$` (flag m) anchor at
LineTerminators == {"\n", "\r"}

UpperCase ==
  {"A", "B", "C", "D", "E", "F", "G", "H", "I", "J", "K", "L", "M",
   "N", "O", "P", "Q", "R", "S", "T", "U", "V", "W", "X", "Y", "Z"}

\* the characters that end a sentence: the class [.!?]
Terminators == {".", "!", "?"}

\* the separator addOverlap puts between the overlap and the chunk
Marker == <<" ", "[", ".", ".", ".", "]", " ">>

\* a section of this length or less is dropped by splitBySections
MIN_SECTION_LENGTH == 50

\* ^ and $ with flag m; i is the position of the next character
AtLineStart(s, i) == i = 1 \/ s[i - 1] \in LineTerminators
AtLineEnd(s, i) == i > Len(s) \/ s[i] \in LineTerminators

NoMatch == [found |-> FALSE, next |-> 0, title |-> << >>]

\* #{1,3}\s+(.+)$ at position i with h hashes and w whitespace characters:
\* the rest of the match is the run up to the end of the line
MarkdownHeadingWith(s, i, h, w) ==
  [found |-> TRUE,
   next  |-> i + h + w + RunLengthNot(s, i + h + w, LineTerminators),
   title |-> SubSeq(s, i + h + w,
                    i + h + w + RunLengthNot(s, i + h + w, LineTerminators) - 1)]

\* the ways #{1,3}\s+(.+)$ matches at position i: <<hashes, whitespace>>
MarkdownSplits(s, i) ==
  {hw \in (1..Min(3, RunLength(s, i, {"#"}))) \X (1..Len(s)) :
     /\ hw[2] <= RunLength(s, i + hw[1], WhiteSpace)
     /\ RunLengthNot(s, i + hw[1] + hw[2], LineTerminators) >= 1}

\* the way a backtracking matcher finds first: the quantifiers are greedy
GreedySplit(splits) ==
  CHOOSE hw \in splits :
    \A other \in splits :
      hw[1] > other[1] \/ (hw[1] = other[1] /\ hw[2] >= other[2])

\* the lengths k of the middle part with which [A-Z][A-Z\s]{5,}[A-Z]$
\* matches at position i
CapsMiddles(s, i) ==
  IF i > Len(s) \/ s[i] \notin UpperCase THEN {}
  ELSE {k \in 5..(RunLength(s, i + 1, UpperCase \cup WhiteSpace) - 1) :
          /\ s[i + 1 + k] \in UpperCase
          /\ AtLineEnd(s, i + 2 + k)}

CapsHeadingWith(s, i, k) ==
  [found |-> TRUE, next |-> i + 2 + k, title |-> SubSeq(s, i, i + 1 + k)]

\* headingPattern matched at position i: the first alternative is tried
\* first; next is the position after the match, title is match[1] || match[2]
HeadingAt(s, i) ==
  IF ~AtLineStart(s, i) THEN NoMatch
  ELSE IF MarkdownSplits(s, i) # {}
       THEN MarkdownHeadingWith(s, i, GreedySplit(MarkdownSplits(s, i))[1],
                                GreedySplit(MarkdownSplits(s, i))[2])
       ELSE IF CapsMiddles(s, i) # {}
            THEN CapsHeadingWith(s, i, CHOOSE k \in CapsMiddles(s, i) :
                                         \A other \in CapsMiddles(s, i) : k >= other)
            ELSE NoMatch

\* sections.push({title, content}) when content.length > 50
PushSection(sections, title, content) ==
  IF Len(content) > MIN_SECTION_LENGTH
  THEN Append(sections, [title |-> title, content |-> content])
  ELSE sections

\* if (sections.length === 0) sections.push({ content: text })
OrWholeText(sections, text) ==
  IF sections = << >> THEN <<[title |-> Undefined, content |-> text]>>
  ELSE sections

\* the final section: the text after the last heading
FinalSection(text, from, lastTitle, sections) ==
  IF from <= Len(text)
  THEN PushSection(sections, lastTitle, Trim(SubSeq(text, from, Len(text))))
  ELSE sections

\* a heading found at position pos: the text since the last heading is
\* saved as a section
SectionBefore(text, pos, from, lastTitle, sections) ==
  IF pos > from
  THEN PushSection(sections, lastTitle, Trim(SubSeq(text, from, pos - 1)))
  ELSE sections

\* the loop of splitBySections: pos is where headingPattern.exec looks
\* next, from the position after the last heading (lastIndex + 1); with
\* no match at pos the next place a match can start is the next line
RECURSIVE ScanSections(_, _, _, _, _)
ScanSections(text, pos, from, lastTitle, sections) ==
  IF pos > Len(text)
  THEN OrWholeText(FinalSection(text, from, lastTitle, sections), text)
  ELSE IF HeadingAt(text, pos).found
       THEN ScanSections(text, HeadingAt(text, pos).next, HeadingAt(text, pos).next,
                         Trim(HeadingAt(text, pos).title),
                         SectionBefore(text, pos, from, lastTitle, sections))
       ELSE ScanSections(text, pos + RunLengthNot(text, pos, LineTerminators) + 1,
                         from, lastTitle, sections)

splitBySections(text) == ScanSections(text, 1, 1, Undefined, << >>)

\* text.split(/\n\n+/): the pieces between runs of two or more line feeds
RECURSIVE SplitParagraphsFrom(_, _, _)
SplitParagraphsFrom(s, i, cur) ==
  IF i > Len(s) THEN <<cur>>
  ELSE IF RunLength(s, i, {"\n"}) >= 2
       THEN <<cur>> \o SplitParagraphsFrom(s, i + RunLength(s, i, {"\n"}), << >>)
       ELSE IF s[i] = "\n"
            THEN SplitParagraphsFrom(s, i + 1, Append(cur, s[i]))
            ELSE SplitParagraphsFrom(s, i + RunLengthNot(s, i, {"\n"}),
                                     cur \o SubSeq(s, i, i + RunLengthNot(s, i, {"\n"}) - 1))


\* para.match(/[^.!?]+[.!?]+/g) from position i: each match is a run of
\* other characters followed by a run of terminators
RECURSIVE MatchSentences(_, _)
MatchSentences(s, i) ==
  IF i > Len(s) THEN << >>
  ELSE IF s[i] \in Terminators THEN MatchSentences(s, i + 1)
  ELSE IF i + RunLengthNot(s, i, Terminators) > Len(s) THEN << >>
  ELSE <<SubSeq(s, i, i + RunLengthNot(s, i, Terminators)
                        + RunLength(s, i + RunLengthNot(s, i, Terminators), Terminators)
                        - 1)>>
       \o MatchSentences(s, i + RunLengthNot(s, i, Terminators)
                            + RunLength(s, i + RunLengthNot(s, i, Terminators),
                                        Terminators))

\* para.match(...) || [para]
SentencesOf(para) ==
  IF MatchSentences(para, 1) = << >> THEN <<para>> ELSE MatchSentences(para, 1)

\* if (currentChunk.length > 0) chunks.push(currentChunk.trim())
Flush(chunks, currentChunk) ==
  IF Len(currentChunk) > 0 THEN Append(chunks, Trim(currentChunk)) ELSE chunks

\* currentChunk += (currentChunk ? separator : "") + piece
Joined(currentChunk, separator, piece) ==
  IF currentChunk # << >> THEN currentChunk \o separator \o piece ELSE piece

\* the loop over the words of a sentence that is too long
RECURSIVE WordLoop(_, _, _, _, _)
WordLoop(words, i, chunks, currentChunk, maxChunkSize) ==
  IF i > Len(words) THEN [chunks |-> chunks, currentChunk |-> currentChunk]
  ELSE IF Len(currentChunk) + Len(words[i]) > maxChunkSize
       THEN WordLoop(words, i + 1, Append(chunks, Trim(currentChunk)), words[i],
                     maxChunkSize)
       ELSE WordLoop(words, i + 1, chunks, Joined(currentChunk, <<" ">>, words[i]),
                     maxChunkSize)

\* the loop over the sentences of a paragraph that is too long, and the
\* push of what is left after it
RECURSIVE SentenceLoop(_, _, _, _)
SentenceLoop(sentences, i, st, maxChunkSize) ==
  IF i > Len(sentences) THEN Flush(st.chunks, st.currentChunk)
  ELSE IF Len(st.currentChunk) + Len(sentences[i]) > maxChunkSize
       THEN IF Len(sentences[i]) > maxChunkSize
            THEN SentenceLoop(sentences, i + 1,
                              WordLoop(SplitWhitespace(sentences[i]), 1,
                                       Flush(st.chunks, st.currentChunk), << >>,
                                       maxChunkSize),
                              maxChunkSize)
            ELSE SentenceLoop(sentences, i + 1,
                              [chunks |-> Flush(st.chunks, st.currentChunk),
                               currentChunk |-> sentences[i]],
                              maxChunkSize)
       ELSE SentenceLoop(sentences, i + 1,
                         [chunks |-> st.chunks,
                          currentChunk |-> st.currentChunk \o sentences[i]],
                         maxChunkSize)

splitLongParagraph(para, opts) ==
  SentenceLoop(SentencesOf(para), 1, [chunks |-> << >>, currentChunk |-> << >>],
               opts.maxChunkSize)

\* chunks.push(...subChunks.slice(0, -1));
\* currentChunk = subChunks[subChunks.length - 1] || ""
AfterLongParagraph(chunks, subChunks) ==
  [chunks |-> chunks \o SubSeq(subChunks, 1, Len(subChunks) - 1),
   currentChunk |-> IF subChunks = << >> THEN << >> ELSE subChunks[Len(subChunks)]]

\* the loop over the paragraphs of a section that is too long, and the
\* push of what is left after it
RECURSIVE ParagraphLoop(_, _, _, _)
ParagraphLoop(paragraphs, i, st, opts) ==
  IF i > Len(paragraphs) THEN Flush(st.chunks, st.currentChunk)
  ELSE IF Len(st.currentChunk) + Len(paragraphs[i]) > opts.maxChunkSize
       THEN IF Len(paragraphs[i]) > opts.maxChunkSize
            THEN ParagraphLoop(paragraphs, i + 1,
                               AfterLongParagraph(Flush(st.chunks, st.currentChunk),
                                                  splitLongParagraph(paragraphs[i], opts)),
                               opts)
            ELSE ParagraphLoop(paragraphs, i + 1,
                               [chunks |-> Flush(st.chunks, st.currentChunk),
                                currentChunk |-> paragraphs[i]],
                               opts)
       ELSE ParagraphLoop(paragraphs, i + 1,
                          [chunks |-> st.chunks,
                           currentChunk |-> Joined(st.currentChunk, <<"\n", "\n">>,
                                                   paragraphs[i])],
                          opts)

\* prevChunk.substring(Math.max(0, prevChunk.length - overlapSize))
OverlapOf(prevChunk, overlapSize) ==
  SubSeq(prevChunk, Max(0, Len(prevChunk) - overlapSize) + 1, Len(prevChunk))

\* String.prototype.indexOf: the 0-based index of the first c, -1 if none
IndexOf(s, c) ==
  IF \E i \in 1..Len(s) : s[i] = c
  THEN (CHOOSE i \in 1..Len(s) : s[i] = c /\ \A j \in 1..(i - 1) : s[j] # c) - 1
  ELSE 0 - 1

\* if (lastSpace > 0) chunk = overlap.substring(lastSpace + 1) + " [...] " + chunk
WithOverlap(chunk, overlap) ==
  IF IndexOf(overlap, " ") > 0
  THEN SubSeq(overlap, IndexOf(overlap, " ") + 2, Len(overlap)) \o Marker \o chunk
  ELSE chunk

addOverlap(chunks, overlapSize) ==
  IF Len(chunks) <= 1 \/ overlapSize = 0 THEN chunks
  ELSE [i \in 1..Len(chunks) |->
          IF i > 1 THEN WithOverlap(chunks[i], OverlapOf(chunks[i - 1], overlapSize))
          ELSE chunks[i]]

chunkSection(text, opts) ==
  IF Len(text) <= opts.maxChunkSize THEN <<text>>
  ELSE addOverlap(ParagraphLoop(SplitParagraphsFrom(text, 1, << >>), 1,
                                [chunks |-> << >>, currentChunk |-> << >>], opts),
                  opts.overlapSize)

\* the chunks of the sections from section i on; index is chunkIndex
RECURSIVE ChunkSections(_, _, _, _)
ChunkSections(sections, i, index, opts) ==
  IF i > Len(sections) THEN << >>
  ELSE [k \in 1..Len(chunkSection(sections[i].content, opts)) |->
          [index |-> index + k - 1,
           content |-> Trim(chunkSection(sections[i].content, opts)[k]),
           sectionTitle |-> sections[i].title]]
       \o ChunkSections(sections, i + 1,
                        index + Len(chunkSection(sections[i].content, opts)), opts)

chunkText(text, opts) == ChunkSections(splitBySections(text), 1, 0, opts)

\* ------------------------------------------------------------------------
\* chunkText called on its own
\* ------------------------------------------------------------------------

\* The pieces below are, in order: a sentence; a short sentence; words with
\* no terminal punctuation; one word longer than every maxChunkSize +
\* overlapSize of the calls; a blank line; a heading line of the first form
\* (# ...); a heading line of the second form (capitals)
Pieces ==
  {<<"A","p","e","x"," ","r","u","n","s"," ","o","n"," ","t","h","e"," ","p","l","a","t","f","o","r","m","."," ">>,
   <<"U","s","e"," ","S","O","Q","L","!"," ">>,
   <<"l","i","m","i","t","s"," ","a","p","p","l","y"," ","p","e","r"," ","t","r","a","n","s","a","c","t","i","o","n">>,
   <<"S","u","p","e","r","c","a","l","i","f","r","a","g","i","l","i","s","t","i","c","e","x","p","i","a","l","i","d","o","c","i","o","u","s">>,
   <<"\n","\n">>,
   <<"#"," ","G","o","v","e","r","n","o","r"," ","L","i","m","i","t","s","\n">>,
   <<"G","O","V","E","R","N","O","R"," ","L","I","M","I","T","S","\n">>}

\* the greatest number of pieces of an input text
MaxPieces == 3

\* the texts of up to n pieces; the empty text is among them
RECURSIVE TextsOf(_)
TextsOf(n) ==
  IF n = 0 THEN {<< >>}
  ELSE TextsOf(n - 1) \cup {t \o p : t \in TextsOf(n - 1), p \in Pieces}

\* the options chunkText is called with: ChunkOptions, scaled down
ChunkOptionsSet ==
  {[maxChunkSize |-> 30, overlapSize |-> 10],
   [maxChunkSize |-> 20, overlapSize |-> 8],
   [maxChunkSize |-> 20, overlapSize |-> 0]}

ChunkInputs ==
  {[text |-> t, maxChunkSize |-> o.maxChunkSize, overlapSize |-> o.overlapSize] :
     t \in TextsOf(MaxPieces), o \in ChunkOptionsSet}

ChunkInit ==
  /\ disk = "absent"
  /\ ServerInit
  /\ build = IdleBuild(disk)
  /\ intentQuery = << >>
  /\ intentResult = Pending
  /\ intentContext = [given |-> FALSE, text |-> << >>]
  /\ expansion = Pending
  /\ chunkInput \in ChunkInputs
  /\ chunkOutput = Pending
  /\ sanitizeInput = << >>
  /\ sanitizeOutput = Pending
  /\ loader = NoLoads

\* chunkText(text, options) returns
ChunkText ==
  /\ chunkOutput = Pending
  /\ chunkOutput' = [chunks |-> chunkText(chunkInput.text,
                                       [maxChunkSize |-> chunkInput.maxChunkSize,
                                        overlapSize |-> chunkInput.overlapSize])]
  /\ UNCHANGED <<disk, serverVars, build, intentVars, chunkInput, sanitizeVars, loader>>

ChunkSpec == ChunkInit /\ [][ChunkText]_vars

\* ------------------------------------------------------------------------
\* The start of searchDocuments on its own: sanitizing and tokenizing
\* (db/queries.ts)
\* ------------------------------------------------------------------------

\* the greatest length of a short query
MaxShort == 3

\* the strings of up to n of the characters a, B, space, tab, < and '
RECURSIVE ShortQueries(_)
ShortQueries(n) ==
  IF n = 0 THEN {<< >>}
  ELSE ShortQueries(n - 1)
         \cup {Append(q, c) : q \in ShortQueries(n - 1), c \in {"a", "B", " ", "\t", "<", "'"}}

\* c.repeat(n)
Repeat(c, n) == [i \in 1..n |-> c]

\* the queries sanitized: the short ones, and queries at and beyond the
\* maximum length
SanitizeInputs ==
  ShortQueries(MaxShort)
    \cup {Repeat("a", MAX_QUERY_LENGTH),
          Repeat("a", MAX_QUERY_LENGTH + 1),
          Repeat("a", MAX_QUERY_LENGTH - 1) \o <<"<", "b", "c">>,
          Repeat("a", MAX_QUERY_LENGTH - 2) \o <<" ", "b", "c", "d">>,
          Repeat("'", MAX_QUERY_LENGTH)}

SanitizeInit ==
  /\ disk = "absent"
  /\ ServerInit
  /\ build = IdleBuild(disk)
  /\ intentQuery = << >>
  /\ intentResult = Pending
  /\ intentContext = [given |-> FALSE, text |-> << >>]
  /\ expansion = Pending
  /\ chunkInput = [text |-> << >>, maxChunkSize |-> 0, overlapSize |-> 0]
  /\ chunkOutput = Pending
  /\ sanitizeInput \in SanitizeInputs
  /\ sanitizeOutput = Pending
  /\ loader = NoLoads

\* const sanitizedQuery = sanitizeQuery(query); ...; const searchTerms = ...
SanitizeAndTokenize ==
  /\ sanitizeOutput = Pending
  /\ sanitizeOutput' = [sanitizedQuery |-> sanitizeQuery(sanitizeInput),
                        searchTerms |-> searchTermsOf(sanitizeQuery(sanitizeInput))]
  /\ UNCHANGED <<disk, serverVars, build, intentVars, chunkVars, sanitizeInput, loader>>

SanitizeSpec == SanitizeInit /\ [][SanitizeAndTokenize]_vars

\* ------------------------------------------------------------------------
\* getDatabase called by callers that do not wait for one another
\* (db/database.ts)
\* ------------------------------------------------------------------------

\* getDatabase() up to its first await: if (!db) { await initSql() ... };
\* with db set the caller gets the instance db holds
GetDatabaseEnter(p) ==
  /\ loader.pc[p] = "idle"
  /\ loader' = IF db = "null"
               THEN [loader EXCEPT !.pc[p] = "awaiting"]
               ELSE [loader EXCEPT !.pc[p] = "done", !.got[p] = loader.instances]
  /\ UNCHANGED <<disk, serverVars, build, intentVars, chunkVars, sanitizeVars>>

\* getDatabase() after the await: the file is read when it exists, db is
\* assigned a new instance, the caller gets that instance
GetDatabaseLoad(p) ==
  /\ loader.pc[p] = "awaiting"
  /\ db' = LoadedFrom(disk)
  /\ loader' = [loader EXCEPT !.pc[p] = "done",
                              !.got[p] = loader.instances + 1,
                              !.instances = loader.instances + 1,
                              !.reads = IF disk = "absent" THEN loader.reads
                                        ELSE loader.reads + 1]
  /\ UNCHANGED <<disk, started, cache, now, tieOrder, calls, last, hist, build,
                 intentVars, chunkVars, sanitizeVars>>

LoadNext ==
  \E p \in 1..MaxCallers : GetDatabaseEnter(p) \/ GetDatabaseLoad(p)

\* a process that has not called initializeDatabase
LoadSpec == Init /\ [][LoadNext]_vars

\* ------------------------------------------------------------------------
\* Index builder (scripts/build-index.ts)
\* ------------------------------------------------------------------------

\* what findPdfs can return: base names, in the order found; two
\* directories may hold files of the same base name
FileLists ==
  {<<"apex_guide.pdf", "api_rest.pdf", "release.pdf">>,
   <<"apex_guide.pdf", "api_rest.pdf", "apex_guide.pdf">>,
   <<"apex_guide.pdf">>}

\* the cleaned text of a file: in order, prose with no heading, two
\* sections with a heading between them, and less than 100 characters
PdfTexts ==
  {<<"A","p","e","x"," ","T","r","i","g","g","e","r","s"," ","r","u","n"," ","b","e","f","o","r","e"," ","a","n","d"," ","a","f","t","e","r"," ","r","e","c","o","r","d","s"," ","a","r","e"," ","s","a","v","e","d","."," ","U","s","e"," ","B","u","l","k"," ","p","a","t","t","e","r","n","s"," ","a","n","d"," ","a","v","o","i","d"," ","S","O","Q","L"," ","i","n"," ","l","o","o","p","s",","," ","a","l","w","a","y","s",".">>,
   <<"A","p","e","x"," ","G","o","v","e","r","n","o","r"," ","L","i","m","i","t","s"," ","c","a","p"," ","t","h","e"," ","S","O","Q","L"," ","q","u","e","r","i","e","s"," ","o","f"," ","o","n","e"," ","t","r","a","n","s","a","c","t","i","o","n",".","\n","#"," ","B","u","l","k"," ","A","P","I","\n","B","u","l","k"," ","A","P","I"," ","2",".","0"," ","j","o","b","s"," ","l","o","a","d"," ","L","a","r","g","e"," ","D","a","t","a"," ","V","o","l","u","m","e","s"," ","i","n"," ","b","a","t","c","h","e","s"," ","o","f"," ","r","e","c","o","r","d","s",".">>,
   <<"P","a","g","e"," ","1"," ","o","f"," ","1">>}

\* what reading and parsing one file can give: its text, or an exception
Extractions ==
  {[throws |-> TRUE, text |-> << >>]}
    \cup {[throws |-> FALSE, text |-> t] : t \in PdfTexts}

\* if (!text || text.length < 100) return false
MIN_TEXT_LENGTH == 100

\* chunkText(text, { maxChunkSize: 1500, overlapSize: 150 })
BUILD_MAX_CHUNK_SIZE == 1500
BUILD_OVERLAP_SIZE == 150

\* if (chunk.content.length > 50): the chunks that are inserted
MIN_CHUNK_LENGTH == 50

\* the greatest position of a chunk INSERT that throws
MaxFailing == 2

BuildInit ==
  /\ disk \in {"absent", "index"}
  /\ ServerInit
  /\ build = IdleBuild(disk)
  /\ UtilIdle

\* buildIndex up to `await initSqlJs()`: the data directory is made and an
\* existing database file is unlinked
BuildStart ==
  /\ build.pc = "idle"
  /\ disk' = "absent"
  /\ build' = [build EXCEPT !.pc = "init"]
  /\ UNCHANGED <<serverVars, utilVars>>

\* initSqlJs resolves, the schema is created and the directories are scanned
BuildCreateSchema ==
  /\ build.pc = "init"
  /\ \E files \in FileLists :
       build' = [build EXCEPT !.pc = "process", !.files = files]
  /\ UNCHANGED <<disk, serverVars, utilVars>>

\* initSqlJs rejects or findPdfs throws: buildIndex().catch(console.error)
BuildInitFails ==
  /\ build.pc = "init"
  /\ build' = [build EXCEPT !.pc = "failed"]
  /\ UNCHANGED <<disk, serverVars, utilVars>>

\* fault: the chunk is stored as it is in both columns
ChunkRowAsIs(documentId, chunk) ==
  [document_id |-> documentId, chunk_index |-> chunk.index,
   content |-> chunk.content, content_lower |-> chunk.content]

\* the row of INSERT INTO chunks (document_id, chunk_index, content,
\* content_lower, section_title)
ChunkRow(documentId, chunk) ==
  [document_id |-> documentId, chunk_index |-> chunk.index,
   content |-> chunk.content, content_lower |-> ToLowerCase(chunk.content)]

\* the loop over the chunks of a document whose row is inserted: the chunks
\* of more than 50 characters are inserted in order; failing is the
\* position, among them, of the INSERT in which the engine throws, 0 when
\* none does.  The rows inserted before it stay: nothing is rolled back
InsertChunks(docs, chunks, documentId, kept, failing) ==
  [ok     |-> failing = 0 \/ failing > Len(kept),
   docs   |-> docs,
   chunks |-> chunks \cup {ChunkRow(documentId, kept[k]) :
                             k \in {j \in 1..Len(kept) : failing = 0 \/ j < failing}}]

\* the chunks of more than 50 characters
KeptOf(produced) ==
  SelectSeq(produced, LAMBDA chunk : Len(chunk.content) > MIN_CHUNK_LENGTH)

\* processPdf: ok when the document and its chunks were inserted.  The
\* INSERT into documents throws when the file name is already there; the
\* id of a new row is the number of rows
processPdf(docs, chunks, fileName, filePath, extraction, failing) ==
  IF \/ extraction.throws
     \/ Len(extraction.text) < MIN_TEXT_LENGTH
     \/ \E d \in docs : d.file_name = fileName
  THEN [ok |-> FALSE, docs |-> docs, chunks |-> chunks]
  ELSE InsertChunks(docs \cup {[id |-> Cardinality(docs) + 1,
                                 file_name |-> fileName,
                                 file_path |-> filePath]},
                    chunks, Cardinality(docs) + 1,
                    KeptOf(chunkText(extraction.text,
                                     [maxChunkSize |-> BUILD_MAX_CHUNK_SIZE,
                                      overlapSize |-> BUILD_OVERLAP_SIZE])),
                    failing)

\* fault: a file that fails ends the build
CountedOrAborted(b, r) ==
  IF r.ok
  THEN [b EXCEPT !.next = @ + 1, !.docs = r.docs, !.chunks = r.chunks,
                 !.counted = Append(@, "indexed"), !.successCount = @ + 1]
  ELSE [b EXCEPT !.pc = "failed", !.failCount = @ + 1]

\* if (await processPdf(db, pdfPath)) successCount++ else failCount++, and
\* the loop goes on to the next path
Counted(b, r) ==
  [b EXCEPT !.next = @ + 1,
            !.docs = r.docs,
            !.chunks = r.chunks,
            !.counted = Append(@, IF r.ok THEN "indexed" ELSE "failed"),
            !.successCount = IF r.ok THEN @ + 1 ELSE @,
            !.failCount = IF r.ok THEN @ ELSE @ + 1]

\* one iteration of the loop over pdfPaths
BuildProcessPdf ==
  /\ build.pc = "process"
  /\ build.next <= Len(build.files)
  /\ \E extraction \in Extractions, failing \in 0..MaxFailing :
       build' = Counted(build,
                        processPdf(build.docs, build.chunks, build.files[build.next],
                                   build.next, extraction, failing))
  /\ UNCHANGED <<disk, serverVars, utilVars>>

\* db.export() and writeFileSync(DB_PATH, buffer)
BuildSave ==
  /\ build.pc = "process"
  /\ build.next > Len(build.files)
  /\ disk' = "rebuilt"
  /\ build' = [build EXCEPT !.pc = "done"]
  /\ UNCHANGED <<serverVars, utilVars>>

\* writeFileSync throws after the file was opened for writing
BuildSaveFails ==
  /\ build.pc = "process"
  /\ build.next > Len(build.files)
  /\ disk' = "torn"
  /\ build' = [build EXCEPT !.pc = "failed"]
  /\ UNCHANGED <<serverVars, utilVars>>

BuildNext ==
  \/ BuildStart
  \/ BuildCreateSchema
  \/ BuildInitFails
  \/ BuildProcessPdf
  \/ BuildSave
  \/ BuildSaveFails

BuildSpec == BuildInit /\ [][BuildNext]_vars

\* ------------------------------------------------------------------------
\* Properties
\* ------------------------------------------------------------------------

\* C1: while a build runs, and after a build that stopped part-way, the file
\* at the final location is still the complete previous index
PreviousIndexKeptDuringBuild ==
  (build.hadIndex /\ build.pc \in {"init", "process", "failed"}) => disk = "index"


\* C20: a file that fails does not end the build.  Every step of the loop
\* takes the next file, once, and counts it as indexed or as failed; the
\* loop can always go on to the next file and, after the last, to the save;
\* a build ends without saving only before the first file or in the save
\* itself; a build that is done has counted every file and has written the
\* index
FailedFileNeverAbortsBuild ==
  /\ [](build.pc \in {"process", "done"} =>
          /\ build.successCount + build.failCount = build.next - 1
          /\ {d.file_path : d \in build.docs} \subseteq 1..(build.next - 1))
  /\ [](build.pc = "process" =>
          IF build.next <= Len(build.files)
          THEN ENABLED BuildProcessPdf
          ELSE ENABLED BuildSave)
  /\ [](build.pc = "failed" =>
          build.next = 1 \/ build.next = Len(build.files) + 1)
  /\ [](build.pc = "done" =>
          /\ build.successCount + build.failCount = Len(build.files)
          /\ disk = "rebuilt")
  /\ [][(build.pc = "process" /\ build'.next # build.next) =>
          /\ build'.pc = "process"
          /\ build'.next = build.next + 1
          /\ build'.files = build.files
          /\ \/ /\ build'.successCount = build.successCount + 1
                /\ build'.failCount = build.failCount
             \/ /\ build'.successCount = build.successCount
                /\ build'.failCount = build.failCount + 1]_vars

\* C20 witness: the first of three files failed, the two after it were
\* indexed, and the index was written
BuiltPastFailedFile ==
  /\ build.pc = "done"
  /\ disk = "rebuilt"
  /\ Len(build.files) = 3
  /\ {d.file_path : d \in build.docs} = {2, 3}
  /\ build.failCount = 1
  /\ build.successCount = 2

\* C21: every chunk row of the index holds in content_lower the lower-case
\* form of its content
ContentLowerIsLowercase ==
  \A row \in build.chunks : row.content_lower = ToLowerCase(row.content)

\* C21 witness: the written index holds a chunk with capital letters
CapitalsPersisted ==
  /\ build.pc = "done"
  /\ disk = "rebuilt"
  /\ \E row \in build.chunks : row.content # row.content_lower

\* C30: in the written index no row belongs to a file counted as failed:
\* the documents are those of the files counted as indexed, and every chunk
\* row belongs to one of them
FailedFilesLeaveNoRows ==
  build.pc = "done" =>
    /\ {d.file_path : d \in build.docs}
         = {i \in 1..Len(build.counted) : build.counted[i] = "indexed"}
    /\ \A row \in build.chunks :
         \E d \in build.docs :
           d.id = row.document_id /\ build.counted[d.file_path] = "indexed"

\* ---- the last call ----

LastCall == <<last.query, last.options>>

\* the last call returned a list read from an index that has rows
Returned == last.outcome \in {"computed", "hit"} /\ db = "index"

\* the last call ran the try block on an index that has rows
Computed == last.outcome = "computed" /\ db = "index"

ContentOf(result) == Chunks[result.chunk].content_lower

\* the chunks a SELECT with these filters matches, before ORDER BY and LIMIT
PoolOf(searchPatterns, category, subcategory) ==
  {c \in ChunkIds : RowMatches(Chunks[c], searchPatterns, category, subcategory)}

ChunksOf(results) == {results[i].chunk : i \in 1..Len(results)}

CurrentAt(attempts, i) ==
  CHOOSE j \in 1..(i - 1) :
    attempts[j].adopted /\ \A k \in (j + 1)..(i - 1) : ~attempts[k].adopted

IsCall(c) == calls' = calls + 1 /\ last'.query = c[1] /\ last'.options = c[2]

\* the cache holds an entry for call c that has not expired
LiveEntry(c) ==
  /\ CacheIndex(cache, CallTable[c].key) # 0
  /\ ~IsStale(cache[CacheIndex(cache, CallTable[c].key)], now)

ExplicitFilterUsedAsIs ==
  (last.outcome # "none"
   /\ (last.options.category # Undefined \/ last.options.subcategory # Undefined)) =>
    /\ ~last.usedIntentFilter
    /\ last.category = last.options.category
    /\ last.subcategory = last.options.subcategory
    /\ Len(last.attempts) <= 1
    /\ \A i \in 1..Len(last.attempts) :
         /\ last.attempts[i].category = last.options.category
         /\ last.attempts[i].subcategory = last.options.subcategory
    /\ \A i \in 1..Len(last.results) :
         /\ last.options.category # Undefined =>
              last.results[i].document.category = last.options.category
         /\ last.options.subcategory # Undefined =>
              last.results[i].document.subcategory = last.options.subcategory
         /\ last.results[i].detectedIntent.confidence = Undefined

\* C6 witness: a query whose intent is apex was searched in release_notes,
\* found fewer than maxResults, and was not widened
ExplicitCategorySearched ==
  /\ Computed
  /\ last.options.category = "release_notes"
  /\ CallTable[LastCall].intent.subcategory = "apex"
  /\ Len(last.results) > 0
  /\ Len(last.results) < MaxResultsOf(last.options)

\* C7: without a filter from the caller, the intent filter is applied exactly
\* when the confidence is high or medium; otherwise the search is unfiltered
IntentFilterIffConfident ==
  (last.outcome # "none"
   /\ last.options.category = Undefined /\ last.options.subcategory = Undefined) =>
    LET intent == CallTable[LastCall].intent
    IN  /\ last.usedIntentFilter <=> intent.confidence \in {"high", "medium"}
        /\ last.usedIntentFilter =>
             /\ last.category = intent.category
             /\ last.subcategory = intent.subcategory
        /\ ~last.usedIntentFilter =>
             /\ last.category = Undefined /\ last.subcategory = Undefined
             /\ Len(last.attempts) <= 1
             /\ \A i \in 1..Len(last.attempts) :
                  /\ last.attempts[i].category = Undefined
                  /\ last.attempts[i].subcategory = Undefined
        /\ (intent.category = Undefined \/ intent.subcategory = Undefined) =>
             intent.confidence = "low"

\* C7 witness: a medium confidence applied the filter
MediumIntentApplied ==
  /\ Computed
  /\ last.usedIntentFilter
  /\ CallTable[LastCall].intent.confidence = "medium"

\* C8: every returned chunk contains one of the search terms literally
ResultsContainATerm ==
  Returned =>
    \A i \in 1..Len(last.results) :
      \E k \in 1..Len(CallTable[LastCall].terms) :
        Includes(ContentOf(last.results[i]), CallTable[LastCall].terms[k])

\* the greatest number of occurrences of t in s no two of which overlap
NonOverlapping(s, t) ==
  LET at == {i \in 1..Len(s) : OccursAt(s, t, i)}
      ok(S) == \A i \in S, j \in S : i # j => (i - j >= Len(t) \/ j - i >= Len(t))
      best == CHOOSE S \in SUBSET at :
                ok(S) /\ \A T \in SUBSET at : ok(T) => Cardinality(T) <= Cardinality(S)
  IN  Cardinality(best)

RECURSIVE SumOver(_, _)
SumOver(f, S) ==
  IF S = {} THEN 0
  ELSE LET x == CHOOSE y \in S : TRUE IN f[x] + SumOver(f, S \ {x})

\* every result scored for the last call: the returned ones and those of
\* each executeSearch call made
ScoredResults ==
  Range(last.results)
    \cup UNION {Range(last.attempts[i].results) : i \in 1..Len(last.attempts)}

SampleTakesHighestPriority ==
  Computed =>
    \A i \in 1..Len(last.attempts) :
      LET a      == last.attempts[i]
          pool   == PoolOf(CallTable[LastCall].patterns, a.category, a.subcategory)
          sample == ChunksOf(a.results)
      IN  /\ sample \subseteq pool
          /\ Cardinality(sample) = Min(Cardinality(pool), a.sampleSize)
          /\ \A x \in pool \ sample, y \in sample :
               DocumentOf(Chunks[x]).priority <= DocumentOf(Chunks[y]).priority

\* C10 witness: the pool was larger than the cap and a chunk of lower
\* priority was left out
LowPriorityLeftOut ==
  /\ Computed
  /\ \E i \in 1..Len(last.attempts) :
       LET a      == last.attempts[i]
           pool   == PoolOf(CallTable[LastCall].patterns, a.category, a.subcategory)
           sample == ChunksOf(a.results)
       IN  /\ Cardinality(pool) > a.sampleSize
           /\ \E x \in pool \ sample, y \in sample :
                DocumentOf(Chunks[x]).priority < DocumentOf(Chunks[y]).priority


ReturnedIsTopPrefixByScore ==
  /\ Returned =>
       /\ Len(last.results) <= MaxResultsOf(last.options)
       /\ last.options.maxResults = 0 => Len(last.results) <= 5
       /\ \A i \in 1..(Len(last.results) - 1) :
            last.results[i].score10n >= last.results[i + 1].score10n
  /\ Computed =>
       LET adopted == last.attempts[CurrentAt(last.attempts, Len(last.attempts) + 1)].results
       IN  /\ \A i \in 1..(Len(adopted) - 1) :
                adopted[i].score10n >= adopted[i + 1].score10n
           /\ last.results =
                SubSeq(adopted, 1, Min(MaxResultsOf(last.options), Len(adopted)))

\* C25 witness: a list cut to maxResults whose scores differ, selected in an
\* order that is not the score order
TopThreeOfFive ==
  /\ Computed
  /\ Len(last.results) = MaxResultsOf(last.options)
  /\ Len(last.attempts[CurrentAt(last.attempts, Len(last.attempts) + 1)].results)
       > Len(last.results)
  /\ \E i \in 1..(Len(last.results) - 1) :
       /\ last.results[i].score10n > last.results[i + 1].score10n
       /\ tieOrder[last.results[i].chunk] > tieOrder[last.results[i + 1].chunk]
       /\ last.results[i].document.priority = last.results[i + 1].document.priority

\* C28 as stated: a returned result that carries a detectedIntent belongs to
\* a document of the category and subcategory the detectedIntent names
DetectedIntentNamesDocumentScope ==
  Returned =>
    \A i \in 1..Len(last.results) :
      last.results[i].detectedIntent.category # Undefined =>
        /\ last.results[i].document.category = last.results[i].detectedIntent.category
        /\ last.results[i].document.subcategory = last.results[i].detectedIntent.subcategory

\* C29 as stated: when the intent-filtered attempt found some results, fewer
\* than maxResults, and a wider attempt was adopted, every result of the
\* filtered attempt is in the returned list
WideningKeepsFilteredResults ==
  (/\ Computed /\ last.usedIntentFilter
   /\ Len(last.attempts[1].results) > 0
   /\ Len(last.attempts[1].results) < MaxResultsOf(last.options)
   /\ \E i \in 2..Len(last.attempts) : last.attempts[i].adopted) =>
    ChunksOf(last.attempts[1].results) \subseteq ChunksOf(last.results)

\* C24 as stated: a query whose words are separated by a tab gets the terms,
\* the detected intent and the results of the same words separated by
\* single spaces
TabSeparatedSearchedAlike ==
  (last.query = QTabbed /\ Computed) =>
    LET tabbed == CallTable[LastCall]
        spaced == CallTable[<<QRepeat, last.options>>]
    IN  /\ tabbed.terms = spaced.terms
        /\ tabbed.intent = spaced.intent
        /\ last.results = SearchTable[<<QRepeat, last.options>>, tieOrder].topResults

\* ---- the classifier ----

Detected == intentResult # Pending

\* the phrases of pattern i found in the query: indices into its keywords
PhrasesFound(query, i) ==
  {k \in 1..Len(INTENT_PATTERNS[i].keywords) :
     Includes(ToLowerCase(query), ToLowerCase(INTENT_PATTERNS[i].keywords[k]))}

\* the patterns with at least one phrase found in the query
MatchedPatternsOf(query) ==
  {i \in 1..Len(INTENT_PATTERNS) : PhrasesFound(query, i) # {}}

PairOf(i) == <<INTENT_PATTERNS[i].category, INTENT_PATTERNS[i].subcategory>>

\* the weight a set of patterns gives the query: weight x phrases found
WeightOver(query, patterns) ==
  SumOver([i \in patterns |->
             INTENT_PATTERNS[i].weight * Cardinality(PhrasesFound(query, i))],
          patterns)

\* the accumulated weight of a (category, subcategory) pair
PairWeight(query, pair) ==
  WeightOver(query, {i \in MatchedPatternsOf(query) : PairOf(i) = pair})

\* the first pattern of the pair, in declaration order, that matched
FirstMatched(query, pair) ==
  CHOOSE i \in MatchedPatternsOf(query) :
    /\ PairOf(i) = pair
    /\ \A j \in MatchedPatternsOf(query) : PairOf(j) = pair => i <= j

\* C15: the confidence is a function of the weight summed over all matched
\* patterns alone: high from 15, medium from 7, low below
ConfidenceFromTotalWeight ==
  Detected =>
    LET total == WeightOver(intentQuery, MatchedPatternsOf(intentQuery))
    IN  /\ intentResult.totalWeight = total
        /\ intentResult.confidence = "high" <=> total >= 15
        /\ intentResult.confidence = "medium" <=> (7 <= total /\ total < 15)
        /\ intentResult.confidence = "low" <=> total < 7

\* C15 witness: the confidence is high although the winning pair alone
\* has less than 15
HighWithoutHighWinner ==
  /\ Detected
  /\ intentResult.confidence = "high"
  /\ PairWeight(intentQuery, <<intentResult.category, intentResult.subcategory>>) < 15

\* C16: the detected pair has the greatest accumulated weight, and of the
\* pairs with that weight it is the one whose matching pattern comes first
\* in the declaration order; nothing is detected when no pattern matches
WinnerHasGreatestWeight ==
  Detected =>
    LET matched == MatchedPatternsOf(intentQuery)
        winner  == <<intentResult.category, intentResult.subcategory>>
    IN  /\ matched = {} => winner = <<Undefined, Undefined>>
        /\ matched # {} =>
             /\ \E i \in matched : PairOf(i) = winner
             /\ \A i \in matched :
                  \/ PairWeight(intentQuery, PairOf(i)) < PairWeight(intentQuery, winner)
                  \/ /\ PairWeight(intentQuery, PairOf(i)) = PairWeight(intentQuery, winner)
                     /\ FirstMatched(intentQuery, winner)
                          <= FirstMatched(intentQuery, PairOf(i))

\* C16 witness: two pairs have the greatest weight
TieResolvedByDeclaration ==
  /\ Detected
  /\ \E i \in MatchedPatternsOf(intentQuery) :
       /\ PairOf(i) # <<intentResult.category, intentResult.subcategory>>
       /\ PairWeight(intentQuery, PairOf(i))
            = PairWeight(intentQuery, <<intentResult.category, intentResult.subcategory>>)

\* C17: "batch apex queueable" is detected as apex with high confidence
BatchApexQueueableIsApexHigh ==
  (Detected /\ intentQuery = QBatch) =>
    /\ intentResult.subcategory = "apex"
    /\ intentResult.confidence = "high"

\* C17 witness: the query was classified
BatchApexQueueableClassified ==
  Detected /\ intentQuery = QBatch /\ intentResult.totalWeight = 34

\* C18: each example query of the README is detected as the topic listed
\* for it, with a confidence that applies the filter
ReadmeExamplesDetected ==
  Detected =>
    \A i \in 1..Len(ReadmeExamples) :
      intentQuery = ReadmeExamples[i].query =>
        /\ intentResult.subcategory = ReadmeExamples[i].topic
        /\ intentResult.confidence # "low"

\* ---- the chunker ----

Chunked == chunkOutput # Pending

\* the contents of a sequence of chunks or sections, one after the other
RECURSIVE ContentsOf(_)
ContentsOf(items) ==
  IF items = << >> THEN << >>
  ELSE Head(items).content \o ContentsOf(Tail(items))

\* a text without its whitespace
Inked(s) == RemoveChars(s, WhiteSpace)

\* the marker without the spaces around it
MarkerCore == SubSeq(Marker, 2, Len(Marker) - 1)

\* content begins with a piece of the tail of the previous chunk, followed
\* by the marker
BeginsWithOverlap(content, previous, overlapSize) ==
  \E p \in 0..Min(overlapSize, Len(content)) :
    /\ OccursAt(content, MarkerCore, p + 1)
    /\ \/ Trim(SubSeq(content, 1, p)) = << >>
       \/ Includes(OverlapOf(previous, overlapSize), Trim(SubSeq(content, 1, p)))

\* C11: every chunk is at most maxChunkSize + overlapSize characters long
ChunkWithinSizeBound ==
  Chunked =>
    \A i \in 1..Len(chunkOutput.chunks) :
      Len(chunkOutput.chunks[i].content)
        <= chunkInput.maxChunkSize + chunkInput.overlapSize

\* C12: the chunks, one after the other, hold all of the content of the
\* kept sections (those of more than 50 characters); stated for a call
\* without overlap, where no prefix is injected, and up to whitespace
KeptSectionsFullyCovered ==
  (/\ Chunked
   /\ chunkInput.overlapSize = 0
   /\ \A i \in 1..Len(splitBySections(chunkInput.text)) :
        Len(splitBySections(chunkInput.text)[i].content) > MIN_SECTION_LENGTH)
  => Inked(ContentsOf(chunkOutput.chunks))
       = Inked(ContentsOf(splitBySections(chunkInput.text)))

\* C13: when a section is split into two or more chunks with an overlap
\* size above zero, every chunk after the first begins with a piece of the
\* tail of the chunk before it, followed by the continuation marker;
\* stated for a text of one section
LaterChunksBeginWithOverlap ==
  (/\ Chunked
   /\ chunkInput.overlapSize > 0
   /\ Len(splitBySections(chunkInput.text)) = 1)
  => \A i \in 2..Len(chunkOutput.chunks) :
       BeginsWithOverlap(chunkOutput.chunks[i].content,
                         chunkOutput.chunks[i - 1].content,
                         chunkInput.overlapSize)

\* C14: a text of length zero gives no chunk
EmptyTextYieldsNoChunks ==
  (Chunked /\ chunkInput.text = << >>) => Len(chunkOutput.chunks) = 0

\* C26 as stated: no chunk is produced from a section of fewer than 50
\* characters after trimming, so a text of fewer than 50 characters yields
\* no chunk, and a section of 50 characters or more is kept: the text
\* without headings is one section (the empty text is left to C14)
ShortSectionsDropped ==
  (Chunked /\ chunkInput.text # << >>) =>
    LET text     == chunkInput.text
        sections == splitBySections(text)
    IN  /\ \A i \in 1..Len(sections) :
             Len(Trim(sections[i].content)) >= MIN_SECTION_LENGTH
        /\ Len(Trim(text)) < MIN_SECTION_LENGTH => chunkOutput.chunks = << >>
        /\ (/\ \A pos \in 1..Len(text) : ~HeadingAt(text, pos).found
            /\ Len(Trim(text)) >= MIN_SECTION_LENGTH) =>
             \E i \in 1..Len(sections) : Trim(sections[i].content) = Trim(text)

\* ---- sanitizing, expansion, loading ----

\* C22 as stated: the sanitized query is at most 500 characters long, has no
\* control character and no angle bracket, and the search terms are the
\* tokens of more than one character between the whitespace of the sanitized
\* query, in lower case as the index is
SanitizedWithinBounds ==
  sanitizeOutput # Pending =>
    LET q     == sanitizeOutput.sanitizedQuery
        lower == ToLowerCase(q)
        terms == sanitizeOutput.searchTerms
        \* a token starts at i: a character that is not whitespace, at the
        \* start of the query or after whitespace
        StartsToken(i) ==
          lower[i] \notin WhiteSpace /\ (i = 1 \/ lower[i - 1] \in WhiteSpace)
        TokenAt(i) == SubSeq(lower, i, i + RunLengthNot(lower, i, WhiteSpace) - 1)
        starts == {i \in 1..Len(lower) : StartsToken(i) /\ Len(TokenAt(i)) > 1}
    IN  /\ Len(q) <= 500
        /\ \A k \in 1..Len(q) : q[k] \notin ControlChars \cup {"<", ">"}
        /\ Len(terms) = Cardinality(starts)
        /\ \A j \in 1..Len(terms) :
             \E i \in starts :
               /\ TokenAt(i) = terms[j]
               /\ Cardinality({k \in starts : k < i}) = j - 1

\* C23 as stated: the expansion holds at most 20 terms, no two of them the
\* same up to letter case
ExpansionCappedAndDistinct ==
  expansion # Pending =>
    /\ Len(expansion.expandedTerms) <= 20
    /\ \A i, j \in 1..Len(expansion.expandedTerms) :
         ToLowerCase(expansion.expandedTerms[i]) = ToLowerCase(expansion.expandedTerms[j])
           => i = j

\* C27 as stated: the file is read at most once, and every caller that got
\* the store got the same instance, also when a caller enters getDatabase
\* before the load started by another has completed
StoreLoadedOnce ==
  /\ loader.reads <= 1
  /\ loader.instances <= 1
  /\ \A p, q \in 1..MaxCallers :
       (loader.got[p] # 0 /\ loader.got[q] # 0) => loader.got[p] = loader.got[q]
====
